---------------------------- MODULE Spec2Model ----------------------------
(***************************************************************************)
(* Concurrent containers (containers.h): Treiber stack, Michael & Scott   *)
(* queue, flat-combining stack/queue, and the bounded queue built on the  *)
(* epoch condition variable.  Every container is an independent object;   *)
(* each has its own specification over its own variables, the variables   *)
(* of the other containers staying at their constructed values.           *)
(*                                                                         *)
(* Every std::atomic access (load, store, compare_exchange) is one step;  *)
(* all atomics use the default memory_order_seq_cst, so interleaving of   *)
(* steps is the memory model.  compare_exchange_weak may fail spuriously. *)
(***************************************************************************)
EXTENDS Integers, Sequences, FiniteSets, Bags, TLC

(***************************************************************************)
(* Bounds of the model.                                                    *)
(***************************************************************************)
\* operations each thread of the Treiber workload performs
TsMaxOps == 3
\* calls the threads of the fair Treiber workload start in total
TsFairCalls == 4

\* thread ids, as the workers of main.cpp are numbered
TsThreads == {0, 1}

\* operations each thread of the M&S queue workload performs
MqMaxOps == 3
MqFairCalls == 4
MqThreads == {0, 1}

\* operations the threads of the flat-combining workload perform in total
FcMaxOps == 3
FcThreads == {0, 1}
\* containers.h:20 is #define MAX_THREADS 32; the model keeps one slot for each
\* thread
MAX_THREADS == 2
FcSlots == 0..(MAX_THREADS - 1)
\* fc_stack.cpp:71, fc_queue.cpp:74: the result that pop()/dequeue() reads as "empty"
FcSentinel == -1
\* what an uninitialised slots[i].val or slots[i].result may hold: the
\* constructors (containers.h:106-111, 129-134) set only op and done
FcGarbage == {FcSentinel, 0}
\* no thread holds the mutex
NoThread == -1

\* containers.h:151 is static const int SIZE = 50; the model's buffer is shorter
SIZE == 2
\* items each producer enqueues and each consumer dequeues (more than SIZE)
BqN == 3
BqProducers == {0, 1}
BqConsumers == {2, 3}
BqThreads == BqProducers \cup BqConsumers

\* waits each waiting thread performs, notifications each notifying thread issues
CvMaxWaits == 2
CvMaxNotifies == 2
CvWaiters == {0, 1}
CvNotifiers == {2, 3}
CvThreads == CvWaiters \cup CvNotifiers

\* push/pop pairs each thread of the elimination-stack workload performs
EsMaxPairs == 2
EsThreads == {0, 1}
\* containers.h:19 is #define ELIM_SIZE 8; the model keeps two slots
ELIM_SIZE == 2

\* operations each thread of the single-lock workload performs
SgMaxOps == 3
SgThreads == {0, 1}

\* calls of get_slot each thread makes; one thread more than there are slots
GsMaxCalls == 2
GsThreads == 0..MAX_THREADS

\* nullptr
NULL == 0

\* what pop()/dequeue() hands to its caller: a value, or the exception
\* std::runtime_error("empty")
Ret(v) == [empty |-> FALSE, v |-> v]
EmptyError == [empty |-> TRUE, v |-> 0]

\* a call as the caller wrote it
PushCall(v) == [op |-> "push", v |-> v]
PopCall == [op |-> "pop", v |-> 0]

RECURSIVE SeqToBag(_)
SeqToBag(s) == IF s = <<>> THEN EmptyBag ELSE SetToBag({Head(s)}) (+) SeqToBag(Tail(s))

RECURSIVE Reverse(_)
Reverse(s) == IF s = <<>> THEN <<>> ELSE Append(Reverse(Tail(s)), Head(s))

Prefix(s, n) == SubSeq(s, 1, IF n < Len(s) THEN n ELSE Len(s))

VARIABLES
  \* ---- treiber_stack ----
  ts_top,        \* std::atomic<node*> top
  ts_value,      \* node::value, by node address (1..Len)
  ts_next,       \* node::next, by node address
  ts_pc,         \* where each thread is inside push()/pop()
  ts_n,          \* push: local n
  ts_old_top,    \* push/pop: local old_top
  ts_nxt,        \* pop: local next
  ts_v,          \* pop: local v
  ts_calls,      \* per thread: the calls it has made, in order
  ts_res,        \* per thread: what its pops returned, in order
  ts_abs,        \* the stack as linearized so far, top first
  ts_ev,         \* the last successful compare-and-swap on top
  ts_sawnull     \* per thread: whether top was nullptr at its last load in pop

VARIABLES
  \* ---- msqueue ----
  mq_head,       \* std::atomic<node*> head
  mq_tail,       \* std::atomic<node*> tail
  mq_value,      \* node::value, by node address
  mq_next,       \* node::next (atomic), by node address
  mq_pc,         \* where each thread is inside enqueue()/dequeue()
  mq_n,          \* enqueue: local n
  mq_first,      \* dequeue: local first
  mq_last,       \* enqueue/dequeue: local last
  mq_nxt,        \* enqueue/dequeue: local next
  mq_v,          \* dequeue: local v
  mq_calls,      \* per thread: the calls it has made, in order
  mq_res,        \* per thread: what its dequeues returned, in order
  mq_abs,        \* the queue as linearized so far, front first
  mq_ev,         \* the last successful compare-and-swap on head
  mq_deqlog,     \* the values dequeued, in the order of the CAS steps on head
  mq_sawempty    \* per thread: at its last load of first->next in dequeue,
                 \* whether head == tail and head->next was nullptr

mq_vars == <<mq_head, mq_tail, mq_value, mq_next, mq_pc, mq_n, mq_first, mq_last,
             mq_nxt, mq_v, mq_calls, mq_res, mq_abs, mq_ev, mq_deqlog, mq_sawempty>>

VARIABLES
  \* ---- fc_stack / fc_queue ----
  fc_kind,       \* which class the object is: "stack" or "queue"
  fc_data,       \* std::stack<int> / std::queue<int> data, oldest element first
  fc_lock,       \* std::mutex lock: the thread that holds it, or NoThread
  fc_op,         \* slots[i].op
  fc_val,        \* slots[i].val
  fc_result,     \* slots[i].result
  fc_done,       \* slots[i].done
  fc_counter,    \* get_slot: static std::atomic<int> counter
  fc_my_slot,    \* get_slot: thread_local my_slot, -1 before the first call
  fc_pc,         \* where each thread is inside push()/pop()/combine()
  fc_s,          \* push/pop: local s
  fc_arg,        \* push: the parameter value
  fc_i,          \* combine: local i
  fc_calls,      \* per thread: the calls it has made, in order
  fc_res,        \* per thread: what its pops returned, in order
  fc_popEmpty,   \* per slot: whether the combiner last served a pop request
                 \* of this slot while data was empty
  fc_servedEmpty, \* whether any pop request has been served while data was empty
  fc_applied     \* per slot: how many times combiners have executed the request
                 \* posted in it since its op was last set

fc_vars == <<fc_kind, fc_data, fc_lock, fc_op, fc_val, fc_result, fc_done, fc_counter,
             fc_my_slot, fc_pc, fc_s, fc_arg, fc_i, fc_calls, fc_res, fc_popEmpty,
             fc_servedEmpty, fc_applied>>

VARIABLES
  \* ---- bounded_queue and its two condvar_no_spurious ----
  bq_buffer,     \* int buffer[SIZE]
  bq_head,       \* int head
  bq_tail,       \* int tail
  bq_count,      \* int count
  bq_lock,       \* std::mutex lock: the thread that holds it, or NoThread
  bq_epoch,      \* condvar_no_spurious::epoch of not_full and of not_empty
  bq_pc,         \* where each thread is inside enqueue()/dequeue()/wait()
  bq_my_epoch,   \* wait: local my_epoch
  bq_v,          \* dequeue: local v
  bq_k,          \* per thread: the loop counter i of its caller (calls returned)
  bq_active,     \* the threads the workload starts
  bq_got         \* per consumer: the values its dequeues returned, in order

bq_vars == <<bq_buffer, bq_head, bq_tail, bq_count, bq_lock, bq_epoch, bq_pc,
             bq_my_epoch, bq_v, bq_k, bq_active, bq_got>>

VARIABLES
  \* ---- one condvar_no_spurious and the mutex its callers hold ----
  cv_epoch,      \* std::size_t epoch
  cv_lock,       \* the std::mutex of the std::unique_lock passed to wait()
  cv_pc,         \* where each thread is
  cv_my_epoch,   \* wait: local my_epoch
  cv_k,          \* per thread: the calls of wait/signal/broadcast it has finished
  cv_nsignal,    \* signal() calls so far
  cv_nbroadcast, \* broadcast() calls so far
  cv_returned,   \* per epoch value e: the threads that captured e and have
                 \* returned from wait()
  cv_pending     \* the threads that were inside wait() at a broadcast() and
                 \* have not returned from that wait() yet

cv_vars == <<cv_epoch, cv_lock, cv_pc, cv_my_epoch, cv_k, cv_nsignal, cv_nbroadcast,
             cv_returned, cv_pending>>

VARIABLES
  \* ---- elimination_stack ----
  es_top,        \* std::atomic<node*> top
  es_value,      \* node::value, by node address
  es_next,       \* node::next, by node address
  es_ops,        \* std::atomic<int> elim_ops[ELIM_SIZE]
  es_vals,       \* std::atomic<int> elim_vals[ELIM_SIZE]
  es_pc,         \* where each thread is inside push()/pop()
  es_n,          \* push: local n
  es_old_top,    \* push/pop: local old_top
  es_nxt,        \* pop: local next
  es_v,          \* pop: local v
  es_calls,      \* per thread: the calls it has made, in order
  es_res,        \* per thread: what its pops returned, in order
  es_paired      \* the workload: TRUE when every thread alternates push and pop

es_vars == <<es_top, es_value, es_next, es_ops, es_vals, es_pc, es_n, es_old_top,
             es_nxt, es_v, es_calls, es_res, es_paired>>

VARIABLES
  \* ---- sgl_stack / sgl_queue ----
  sg_kind,       \* which class the object is: "stack" or "queue"
  sg_data,       \* std::stack<int> / std::queue<int> data, oldest element first
  sg_lock,       \* std::mutex lock: the thread that holds it, or NoThread
  sg_pc,         \* where each thread is inside push()/pop()
  sg_arg,        \* push: the parameter value
  sg_v,          \* pop: local v
  sg_calls,      \* per thread: the calls it has made, in order
  sg_res         \* per thread: what its pops returned, in order

sg_vars == <<sg_kind, sg_data, sg_lock, sg_pc, sg_arg, sg_v, sg_calls, sg_res>>

VARIABLES
  \* ---- get_slot of fc_stack / fc_queue, called by more threads than slots ----
  gs_kind,       \* which class: "stack" or "queue"
  gs_counter,    \* static std::atomic<int> counter
  gs_my_slot,    \* thread_local my_slot, -1 while not assigned
  gs_pc,         \* where each thread is inside get_slot()
  gs_rets        \* per thread: the values get_slot() has returned, in order

gs_vars == <<gs_kind, gs_counter, gs_my_slot, gs_pc, gs_rets>>

ts_vars == <<ts_top, ts_value, ts_next, ts_pc, ts_n, ts_old_top, ts_nxt, ts_v,
             ts_calls, ts_res, ts_abs, ts_ev, ts_sawnull>>

vars == <<ts_vars, mq_vars, fc_vars, bq_vars, cv_vars, es_vars, sg_vars, gs_vars>>

\* what the operations of one container leave alone
ts_Others == <<mq_vars, fc_vars, bq_vars, cv_vars, es_vars, sg_vars, gs_vars>>
mq_Others == <<ts_vars, fc_vars, bq_vars, cv_vars, es_vars, sg_vars, gs_vars>>
fc_Others == <<ts_vars, mq_vars, bq_vars, cv_vars, es_vars, sg_vars, gs_vars>>
bq_Others == <<ts_vars, mq_vars, fc_vars, cv_vars, es_vars, sg_vars, gs_vars>>
cv_Others == <<ts_vars, mq_vars, fc_vars, bq_vars, es_vars, sg_vars, gs_vars>>
es_Others == <<ts_vars, mq_vars, fc_vars, bq_vars, cv_vars, sg_vars, gs_vars>>
sg_Others == <<ts_vars, mq_vars, fc_vars, bq_vars, cv_vars, es_vars, gs_vars>>
gs_Others == <<ts_vars, mq_vars, fc_vars, bq_vars, cv_vars, es_vars, sg_vars>>

(***************************************************************************)
(* treiber_stack                                                           *)
(***************************************************************************)
NoEvent == [kind |-> "none", t |-> 0, v |-> 0, abs |-> <<>>, topval |-> 0]

ts_Fresh ==
  /\ ts_top = NULL
  /\ ts_value = <<>>
  /\ ts_next = <<>>
  /\ ts_pc = [t \in TsThreads |-> "idle"]
  /\ ts_n = [t \in TsThreads |-> NULL]
  /\ ts_old_top = [t \in TsThreads |-> NULL]
  /\ ts_nxt = [t \in TsThreads |-> NULL]
  /\ ts_v = [t \in TsThreads |-> 0]
  /\ ts_calls = [t \in TsThreads |-> <<>>]
  /\ ts_res = [t \in TsThreads |-> <<>>]
  /\ ts_abs = <<>>
  /\ ts_ev = NoEvent
  /\ ts_sawnull = [t \in TsThreads |-> FALSE]

\* the values of the chain that starts at node p, first node first
RECURSIVE ts_Chain(_)
ts_Chain(p) == IF p = NULL THEN <<>> ELSE <<ts_value[p]>> \o ts_Chain(ts_next[p])

\* a compare-and-swap replaced by an unconditional store
ts_CasBlind(cur, expected) == TRUE

\* top.compare_exchange_weak(expected, desired) may succeed only when top holds
\* expected; the weak form may also fail when it does
\* a compare_exchange_weak that fails every time
ts_CasNever(cur, expected) == FALSE

ts_CasMaySucceed(cur, expected) == cur = expected

\* push(value), line 21: node* n = new node(value)
ts_push_new(t, v) ==
  /\ ts_pc[t] = "idle"
  /\ Len(ts_calls[t]) < TsMaxOps
  /\ ts_value' = Append(ts_value, v)
  /\ ts_next' = Append(ts_next, NULL)
  /\ ts_n' = [ts_n EXCEPT ![t] = Len(ts_value) + 1]
  /\ ts_calls' = [ts_calls EXCEPT ![t] = Append(@, PushCall(v))]
  /\ ts_pc' = [ts_pc EXCEPT ![t] = "push_load"]
  /\ UNCHANGED <<ts_top, ts_old_top, ts_nxt, ts_v, ts_res, ts_abs, ts_ev, ts_sawnull>>
  /\ UNCHANGED ts_Others

\* line 23: node* old_top = top.load()
ts_push_load(t) ==
  /\ ts_pc[t] = "push_load"
  /\ ts_old_top' = [ts_old_top EXCEPT ![t] = ts_top]
  /\ ts_pc' = [ts_pc EXCEPT ![t] = "push_link"]
  /\ UNCHANGED <<ts_top, ts_value, ts_next, ts_n, ts_nxt, ts_v, ts_calls, ts_res, ts_abs, ts_ev, ts_sawnull>>
  /\ UNCHANGED ts_Others

\* line 24: n->next = old_top
ts_push_link(t) ==
  /\ ts_pc[t] = "push_link"
  /\ ts_next' = [ts_next EXCEPT ![ts_n[t]] = ts_old_top[t]]
  /\ ts_pc' = [ts_pc EXCEPT ![t] = "push_cas"]
  /\ UNCHANGED <<ts_top, ts_value, ts_n, ts_old_top, ts_nxt, ts_v, ts_calls, ts_res, ts_abs, ts_ev, ts_sawnull>>
  /\ UNCHANGED ts_Others

\* line 27: if(top.compare_exchange_weak(old_top, n)) return;
ts_push_cas(t) ==
  /\ ts_pc[t] = "push_cas"
  /\ \/ /\ ts_CasMaySucceed(ts_top, ts_old_top[t])
        /\ ts_top' = ts_n[t]
        /\ ts_abs' = <<ts_value[ts_n[t]]>> \o ts_abs
        /\ ts_ev' = [kind |-> "push", t |-> t, v |-> ts_value[ts_n[t]], abs |-> ts_abs,
                     topval |-> 0]
        /\ ts_pc' = [ts_pc EXCEPT ![t] = "idle"]
        /\ UNCHANGED ts_old_top
     \/ /\ ts_old_top' = [ts_old_top EXCEPT ![t] = ts_top]
        /\ ts_pc' = [ts_pc EXCEPT ![t] = "push_load"]
        /\ UNCHANGED <<ts_top, ts_abs, ts_ev>>
  /\ UNCHANGED <<ts_value, ts_next, ts_n, ts_nxt, ts_v, ts_calls, ts_res, ts_sawnull>>
  /\ UNCHANGED ts_Others

\* pop() is called
ts_pop_call(t) ==
  /\ ts_pc[t] = "idle"
  /\ Len(ts_calls[t]) < TsMaxOps
  /\ ts_calls' = [ts_calls EXCEPT ![t] = Append(@, PopCall)]
  /\ ts_pc' = [ts_pc EXCEPT ![t] = "pop_load"]
  /\ UNCHANGED <<ts_top, ts_value, ts_next, ts_n, ts_old_top, ts_nxt, ts_v, ts_res, ts_abs, ts_ev, ts_sawnull>>
  /\ UNCHANGED ts_Others

\* line 35: node* old_top = top.load()
ts_pop_load(t) ==
  /\ ts_pc[t] = "pop_load"
  /\ ts_old_top' = [ts_old_top EXCEPT ![t] = ts_top]
  /\ ts_pc' = [ts_pc EXCEPT ![t] = "pop_check"]
  /\ ts_sawnull' = [ts_sawnull EXCEPT ![t] = (ts_top = NULL)]
  /\ UNCHANGED <<ts_top, ts_value, ts_next, ts_n, ts_nxt, ts_v, ts_calls, ts_res, ts_abs, ts_ev>>
  /\ UNCHANGED ts_Others

\* whether pop gives up on the pointer it loaded (line 36: if(!old_top))
ts_pop_isEmpty(old_top) == old_top = NULL

\* line 36: if(!old_top) throw std::runtime_error("empty");
\* lines 38-39: node* next = old_top->next; int v = old_top->value;
ts_pop_read(t) ==
  /\ ts_pc[t] = "pop_check"
  /\ IF ts_pop_isEmpty(ts_old_top[t])
       THEN /\ ts_res' = [ts_res EXCEPT ![t] = Append(@, EmptyError)]
            /\ ts_pc' = [ts_pc EXCEPT ![t] = "idle"]
            /\ UNCHANGED <<ts_nxt, ts_v>>
       ELSE /\ ts_nxt' = [ts_nxt EXCEPT ![t] = ts_next[ts_old_top[t]]]
            /\ ts_v' = [ts_v EXCEPT ![t] = ts_value[ts_old_top[t]]]
            /\ ts_pc' = [ts_pc EXCEPT ![t] = "pop_cas"]
            /\ UNCHANGED ts_res
  /\ UNCHANGED <<ts_top, ts_value, ts_next, ts_n, ts_old_top, ts_calls, ts_abs, ts_ev, ts_sawnull>>
  /\ UNCHANGED ts_Others

\* lines 42-44: if(top.compare_exchange_weak(old_top, next)) return v;
ts_pop_cas(t) ==
  /\ ts_pc[t] = "pop_cas"
  /\ \/ /\ ts_CasMaySucceed(ts_top, ts_old_top[t])
        /\ ts_top' = ts_nxt[t]
        /\ ts_res' = [ts_res EXCEPT ![t] = Append(@, Ret(ts_v[t]))]
        /\ ts_abs' = IF ts_abs = <<>> THEN <<>> ELSE Tail(ts_abs)
        /\ ts_ev' = [kind |-> "pop", t |-> t, v |-> ts_v[t], abs |-> ts_abs,
                     topval |-> IF ts_top = NULL THEN 0 ELSE ts_value[ts_top]]
        /\ ts_pc' = [ts_pc EXCEPT ![t] = "idle"]
        /\ UNCHANGED ts_old_top
     \/ /\ ts_old_top' = [ts_old_top EXCEPT ![t] = ts_top]
        /\ ts_pc' = [ts_pc EXCEPT ![t] = "pop_load"]
        /\ UNCHANGED <<ts_top, ts_res, ts_abs, ts_ev>>
  /\ UNCHANGED <<ts_value, ts_next, ts_n, ts_nxt, ts_v, ts_calls, ts_sawnull>>
  /\ UNCHANGED ts_Others

\* the workers of main.cpp push distinct values: s.push(id * ops_per_thread + i)
ts_Arg(t) == t * TsMaxOps + Len(ts_calls[t])

\* everything thread t can do
ts_Step(t) ==
  \/ ts_push_new(t, ts_Arg(t))
  \/ ts_push_load(t)
  \/ ts_push_link(t)
  \/ ts_push_cas(t)
  \/ ts_pop_call(t)
  \/ ts_pop_load(t)
  \/ ts_pop_read(t)
  \/ ts_pop_cas(t)

ts_Next == \E t \in TsThreads : ts_Step(t)

(***************************************************************************)
(* msqueue                                                                 *)
(***************************************************************************)
\* lines 11-15: msqueue::msqueue(), the dummy node is node 1
mq_Fresh ==
  /\ mq_value = <<0>>
  /\ mq_next = <<NULL>>
  /\ mq_head = 1
  /\ mq_tail = 1
  /\ mq_pc = [t \in MqThreads |-> "idle"]
  /\ mq_n = [t \in MqThreads |-> NULL]
  /\ mq_first = [t \in MqThreads |-> NULL]
  /\ mq_last = [t \in MqThreads |-> NULL]
  /\ mq_nxt = [t \in MqThreads |-> NULL]
  /\ mq_v = [t \in MqThreads |-> 0]
  /\ mq_calls = [t \in MqThreads |-> <<>>]
  /\ mq_res = [t \in MqThreads |-> <<>>]
  /\ mq_abs = <<>>
  /\ mq_ev = NoEvent
  /\ mq_deqlog = <<>>
  /\ mq_sawempty = [t \in MqThreads |-> FALSE]

\* the values of the chain that starts at node p, first node first
RECURSIVE mq_Chain(_)
mq_Chain(p) == IF p = NULL THEN <<>> ELSE <<mq_value[p]>> \o mq_Chain(mq_next[p])

\* a compare_exchange that stores whatever the cell holds
mq_CasAlways(cur, expected) == TRUE

\* a compare_exchange may succeed only when the cell holds the expected value
mq_CasMaySucceed(cur, expected) == cur = expected

\* enqueue(value), line 29: node* n = new node(value)
mq_enq_new(t, v) ==
  /\ mq_pc[t] = "idle"
  /\ Len(mq_calls[t]) < MqMaxOps
  /\ mq_value' = Append(mq_value, v)
  /\ mq_next' = Append(mq_next, NULL)
  /\ mq_n' = [mq_n EXCEPT ![t] = Len(mq_value) + 1]
  /\ mq_calls' = [mq_calls EXCEPT ![t] = Append(@, PushCall(v))]
  /\ mq_pc' = [mq_pc EXCEPT ![t] = "enq_tail"]
  /\ UNCHANGED <<mq_head, mq_tail, mq_first, mq_last, mq_nxt, mq_v, mq_res, mq_abs,
                 mq_ev, mq_deqlog, mq_sawempty>>
  /\ UNCHANGED mq_Others

\* line 32: node* last = tail.load()
mq_enq_tail(t) ==
  /\ mq_pc[t] = "enq_tail"
  /\ mq_last' = [mq_last EXCEPT ![t] = mq_tail]
  /\ mq_pc' = [mq_pc EXCEPT ![t] = "enq_next"]
  /\ UNCHANGED <<mq_head, mq_tail, mq_value, mq_next, mq_n, mq_first, mq_nxt, mq_v,
                 mq_calls, mq_res, mq_abs, mq_ev, mq_deqlog, mq_sawempty>>
  /\ UNCHANGED mq_Others

\* line 33: node* next = last->next.load()
mq_enq_next(t) ==
  /\ mq_pc[t] = "enq_next"
  /\ mq_nxt' = [mq_nxt EXCEPT ![t] = mq_next[mq_last[t]]]
  /\ mq_pc' = [mq_pc EXCEPT ![t] = "enq_check"]
  /\ UNCHANGED <<mq_head, mq_tail, mq_value, mq_next, mq_n, mq_first, mq_last, mq_v,
                 mq_calls, mq_res, mq_abs, mq_ev, mq_deqlog, mq_sawempty>>
  /\ UNCHANGED mq_Others

\* lines 36-37: if(last == tail.load()) { if(!next) ... else ... }
mq_enq_check(t) ==
  /\ mq_pc[t] = "enq_check"
  /\ mq_pc' = [mq_pc EXCEPT ![t] =
                 IF mq_last[t] = mq_tail
                   THEN (IF mq_nxt[t] = NULL THEN "enq_link" ELSE "enq_help")
                   ELSE "enq_tail"]
  /\ UNCHANGED <<mq_head, mq_tail, mq_value, mq_next, mq_n, mq_first, mq_last, mq_nxt,
                 mq_v, mq_calls, mq_res, mq_abs, mq_ev, mq_deqlog, mq_sawempty>>
  /\ UNCHANGED mq_Others

\* line 39: if(last->next.compare_exchange_weak(next, n))
mq_enq_link(t) ==
  /\ mq_pc[t] = "enq_link"
  /\ \/ /\ mq_CasMaySucceed(mq_next[mq_last[t]], mq_nxt[t])
        /\ mq_next' = [mq_next EXCEPT ![mq_last[t]] = mq_n[t]]
        /\ mq_abs' = Append(mq_abs, mq_value[mq_n[t]])
        /\ mq_pc' = [mq_pc EXCEPT ![t] = "enq_swing"]
        /\ UNCHANGED mq_nxt
     \/ /\ mq_nxt' = [mq_nxt EXCEPT ![t] = mq_next[mq_last[t]]]
        /\ mq_pc' = [mq_pc EXCEPT ![t] = "enq_tail"]
        /\ UNCHANGED <<mq_next, mq_abs>>
  /\ UNCHANGED <<mq_head, mq_tail, mq_value, mq_n, mq_first, mq_last, mq_v, mq_calls,
                 mq_res, mq_ev, mq_deqlog, mq_sawempty>>
  /\ UNCHANGED mq_Others

\* lines 41-42: tail.compare_exchange_weak(last, n); return;
mq_enq_swing(t) ==
  /\ mq_pc[t] = "enq_swing"
  /\ \/ /\ mq_CasMaySucceed(mq_tail, mq_last[t])
        /\ mq_tail' = mq_n[t]
        /\ UNCHANGED mq_last
     \/ /\ mq_last' = [mq_last EXCEPT ![t] = mq_tail]
        /\ UNCHANGED mq_tail
  /\ mq_pc' = [mq_pc EXCEPT ![t] = "idle"]
  /\ UNCHANGED <<mq_head, mq_value, mq_next, mq_n, mq_first, mq_nxt, mq_v, mq_calls,
                 mq_res, mq_abs, mq_ev, mq_deqlog, mq_sawempty>>
  /\ UNCHANGED mq_Others

\* a helping CAS that leaves tail where it is
mq_HelpTargetStay(last, next) == last

\* what the helping CAS of lines 46 and 67 stores in tail:
\* tail.compare_exchange_weak(last, next)
mq_HelpTarget(last, next) == next

\* line 46: tail.compare_exchange_weak(last, next), then around the loop
mq_enq_help(t) ==
  /\ mq_pc[t] = "enq_help"
  /\ \/ /\ mq_CasMaySucceed(mq_tail, mq_last[t])
        /\ mq_tail' = mq_HelpTarget(mq_last[t], mq_nxt[t])
        /\ UNCHANGED mq_last
     \/ /\ mq_last' = [mq_last EXCEPT ![t] = mq_tail]
        /\ UNCHANGED mq_tail
  /\ mq_pc' = [mq_pc EXCEPT ![t] = "enq_tail"]
  /\ UNCHANGED <<mq_head, mq_value, mq_next, mq_n, mq_first, mq_nxt, mq_v, mq_calls,
                 mq_res, mq_abs, mq_ev, mq_deqlog, mq_sawempty>>
  /\ UNCHANGED mq_Others

\* dequeue() is called
mq_deq_call(t) ==
  /\ mq_pc[t] = "idle"
  /\ Len(mq_calls[t]) < MqMaxOps
  /\ mq_calls' = [mq_calls EXCEPT ![t] = Append(@, PopCall)]
  /\ mq_pc' = [mq_pc EXCEPT ![t] = "deq_head"]
  /\ UNCHANGED <<mq_head, mq_tail, mq_value, mq_next, mq_n, mq_first, mq_last, mq_nxt,
                 mq_v, mq_res, mq_abs, mq_ev, mq_deqlog, mq_sawempty>>
  /\ UNCHANGED mq_Others

\* line 56: node* first = head.load()
mq_deq_head(t) ==
  /\ mq_pc[t] = "deq_head"
  /\ mq_first' = [mq_first EXCEPT ![t] = mq_head]
  /\ mq_pc' = [mq_pc EXCEPT ![t] = "deq_tail"]
  /\ UNCHANGED <<mq_head, mq_tail, mq_value, mq_next, mq_n, mq_last, mq_nxt, mq_v,
                 mq_calls, mq_res, mq_abs, mq_ev, mq_deqlog, mq_sawempty>>
  /\ UNCHANGED mq_Others

\* line 57: node* last = tail.load()
mq_deq_tail(t) ==
  /\ mq_pc[t] = "deq_tail"
  /\ mq_last' = [mq_last EXCEPT ![t] = mq_tail]
  /\ mq_pc' = [mq_pc EXCEPT ![t] = "deq_next"]
  /\ UNCHANGED <<mq_head, mq_tail, mq_value, mq_next, mq_n, mq_first, mq_nxt, mq_v,
                 mq_calls, mq_res, mq_abs, mq_ev, mq_deqlog, mq_sawempty>>
  /\ UNCHANGED mq_Others

\* line 58: node* next = first->next.load()
mq_deq_next(t) ==
  /\ mq_pc[t] = "deq_next"
  /\ mq_nxt' = [mq_nxt EXCEPT ![t] = mq_next[mq_first[t]]]
  /\ mq_sawempty' = [mq_sawempty EXCEPT ![t] =
                       mq_head = mq_tail /\ mq_next[mq_head] = NULL]
  /\ mq_pc' = [mq_pc EXCEPT ![t] = "deq_check"]
  /\ UNCHANGED <<mq_head, mq_tail, mq_value, mq_next, mq_n, mq_first, mq_last, mq_v,
                 mq_calls, mq_res, mq_abs, mq_ev, mq_deqlog>>
  /\ UNCHANGED mq_Others

\* reading the value of the old dummy node instead
mq_deq_valueNodeFirst(first, next) == first

\* which node line 70 reads the value from: int v = next->value
mq_deq_valueNode(first, next) == next

\* lines 61-70: if(first == head.load()) { if(first == last) { if(!next) throw ...;
\* (to the helping CAS) } else { int v = next->value; (to the CAS on head) } }
\* Reading through a null next is a crash.
mq_deq_check(t) ==
  /\ mq_pc[t] = "deq_check"
  /\ IF mq_first[t] # mq_head
       THEN /\ mq_pc' = [mq_pc EXCEPT ![t] = "deq_head"]
            /\ UNCHANGED <<mq_v, mq_res>>
       ELSE IF mq_first[t] = mq_last[t]
         THEN IF mq_nxt[t] = NULL
                THEN /\ mq_res' = [mq_res EXCEPT ![t] = Append(@, EmptyError)]
                     /\ mq_pc' = [mq_pc EXCEPT ![t] = "idle"]
                     /\ UNCHANGED mq_v
                ELSE /\ mq_pc' = [mq_pc EXCEPT ![t] = "deq_help"]
                     /\ UNCHANGED <<mq_v, mq_res>>
         ELSE IF mq_deq_valueNode(mq_first[t], mq_nxt[t]) = NULL
                THEN /\ mq_pc' = [mq_pc EXCEPT ![t] = "crashed"]
                     /\ UNCHANGED <<mq_v, mq_res>>
                ELSE /\ mq_v' = [mq_v EXCEPT ![t] =
                                   mq_value[mq_deq_valueNode(mq_first[t], mq_nxt[t])]]
                     /\ mq_pc' = [mq_pc EXCEPT ![t] = "deq_cas"]
                     /\ UNCHANGED mq_res
  /\ UNCHANGED <<mq_head, mq_tail, mq_value, mq_next, mq_n, mq_first, mq_last, mq_nxt,
                 mq_calls, mq_abs, mq_ev, mq_deqlog, mq_sawempty>>
  /\ UNCHANGED mq_Others

\* line 67: tail.compare_exchange_weak(last, next), then around the loop
mq_deq_help(t) ==
  /\ mq_pc[t] = "deq_help"
  /\ \/ /\ mq_CasMaySucceed(mq_tail, mq_last[t])
        /\ mq_tail' = mq_HelpTarget(mq_last[t], mq_nxt[t])
        /\ UNCHANGED mq_last
     \/ /\ mq_last' = [mq_last EXCEPT ![t] = mq_tail]
        /\ UNCHANGED mq_tail
  /\ mq_pc' = [mq_pc EXCEPT ![t] = "deq_head"]
  /\ UNCHANGED <<mq_head, mq_value, mq_next, mq_n, mq_first, mq_nxt, mq_v, mq_calls,
                 mq_res, mq_abs, mq_ev, mq_deqlog, mq_sawempty>>
  /\ UNCHANGED mq_Others

\* lines 71-73: if(head.compare_exchange_weak(first, next)) return v;
mq_deq_cas(t) ==
  /\ mq_pc[t] = "deq_cas"
  /\ \/ /\ mq_CasMaySucceed(mq_head, mq_first[t])
        /\ mq_head' = mq_nxt[t]
        /\ mq_res' = [mq_res EXCEPT ![t] = Append(@, Ret(mq_v[t]))]
        /\ mq_abs' = IF mq_abs = <<>> THEN <<>> ELSE Tail(mq_abs)
        /\ mq_ev' = [kind |-> "deq", t |-> t, v |-> mq_v[t], abs |-> mq_abs, topval |-> 0]
        /\ mq_deqlog' = Append(mq_deqlog, mq_v[t])
        /\ mq_pc' = [mq_pc EXCEPT ![t] = "idle"]
        /\ UNCHANGED mq_first
     \/ /\ mq_first' = [mq_first EXCEPT ![t] = mq_head]
        /\ mq_pc' = [mq_pc EXCEPT ![t] = "deq_head"]
        /\ UNCHANGED <<mq_head, mq_res, mq_abs, mq_ev, mq_deqlog>>
  /\ UNCHANGED <<mq_tail, mq_value, mq_next, mq_n, mq_last, mq_nxt, mq_v, mq_calls,
                 mq_sawempty>>
  /\ UNCHANGED mq_Others

\* the producers of main.cpp enqueue distinct values: q.enqueue(id * ops_per_thread + i);
\* counted from 1 here, so that no value is the dummy node's 0
mq_Arg(t) == t * MqMaxOps + Len(mq_calls[t]) + 1

RECURSIVE mq_SumLen(_)
mq_SumLen(S) ==
  IF S = {} THEN 0
  ELSE LET t == CHOOSE x \in S : TRUE IN Len(mq_calls[t]) + mq_SumLen(S \ {t})

\* everything thread t can do
mq_Step(t) ==
  \/ mq_enq_new(t, mq_Arg(t))
  \/ mq_enq_tail(t)
  \/ mq_enq_next(t)
  \/ mq_enq_check(t)
  \/ mq_enq_link(t)
  \/ mq_enq_swing(t)
  \/ mq_enq_help(t)
  \/ mq_deq_call(t)
  \/ mq_deq_head(t)
  \/ mq_deq_tail(t)
  \/ mq_deq_next(t)
  \/ mq_deq_check(t)
  \/ mq_deq_help(t)
  \/ mq_deq_cas(t)

mq_Next == \E t \in MqThreads : mq_Step(t)


(***************************************************************************)
(* fc_stack and fc_queue.  The two classes differ in the underlying        *)
(* container (data.top() against data.front()) and in get_slot.            *)
(* std::mutex::try_lock is taken to fail only when the mutex is held.      *)
(***************************************************************************)
\* containers.h:106-111 and 129-134: the constructors
fc_Construct(kind, val0, result0) ==
  /\ fc_kind = kind
  /\ fc_data = <<>>
  /\ fc_lock = NoThread
  /\ fc_op = [i \in FcSlots |-> 0]
  /\ fc_done = [i \in FcSlots |-> FALSE]
  /\ fc_val = val0
  /\ fc_result = result0
  /\ fc_counter = 0
  /\ fc_my_slot = [t \in FcThreads |-> -1]
  /\ fc_pc = [t \in FcThreads |-> "idle"]
  /\ fc_s = [t \in FcThreads |-> 0]
  /\ fc_arg = [t \in FcThreads |-> 0]
  /\ fc_i = [t \in FcThreads |-> 0]
  /\ fc_calls = [t \in FcThreads |-> <<>>]
  /\ fc_res = [t \in FcThreads |-> <<>>]
  /\ fc_popEmpty = [i \in FcSlots |-> FALSE]
  /\ fc_servedEmpty = FALSE
  /\ fc_applied = [i \in FcSlots |-> 0]

\* fc_stack.cpp:12-16 and fc_queue.cpp:12-19: the slot a fresh thread gets from
\* the counter value c
fc_SlotOf(kind, c) == IF kind = "queue" THEN c % MAX_THREADS ELSE c

\* int s = get_slot(): the first call of a thread draws from the counter
fc_get_slot(t) ==
  IF fc_my_slot[t] = -1
    THEN /\ fc_my_slot' = [fc_my_slot EXCEPT ![t] = fc_SlotOf(fc_kind, fc_counter)]
         /\ fc_counter' = fc_counter + 1
         /\ fc_s' = [fc_s EXCEPT ![t] = fc_SlotOf(fc_kind, fc_counter)]
    ELSE /\ fc_s' = [fc_s EXCEPT ![t] = fc_my_slot[t]]
         /\ UNCHANGED <<fc_my_slot, fc_counter>>

\* calls made so far, by all threads
fc_NCalls == Len(fc_calls[0]) + Len(fc_calls[1])

\* push(value)/enqueue(value) is called; fc_stack.cpp:40, fc_queue.cpp:43
fc_push_call(t, v) ==
  /\ fc_pc[t] = "idle"
  /\ fc_NCalls < FcMaxOps
  /\ fc_get_slot(t)
  /\ fc_arg' = [fc_arg EXCEPT ![t] = v]
  /\ fc_calls' = [fc_calls EXCEPT ![t] = Append(@, PushCall(v))]
  /\ fc_pc' = [fc_pc EXCEPT ![t] = "post_op"]
  /\ UNCHANGED <<fc_applied, fc_kind, fc_data, fc_lock, fc_op, fc_val, fc_result, fc_done, fc_i,
                 fc_res, fc_popEmpty, fc_servedEmpty>>
  /\ UNCHANGED fc_Others

\* pop()/dequeue() is called; fc_stack.cpp:58, fc_queue.cpp:61
fc_pop_call(t) ==
  /\ fc_pc[t] = "idle"
  /\ fc_NCalls < FcMaxOps
  /\ fc_get_slot(t)
  /\ fc_calls' = [fc_calls EXCEPT ![t] = Append(@, PopCall)]
  /\ fc_pc' = [fc_pc EXCEPT ![t] = "post_op"]
  /\ UNCHANGED <<fc_applied, fc_kind, fc_data, fc_lock, fc_op, fc_val, fc_result, fc_done, fc_arg,
                 fc_i, fc_res, fc_popEmpty, fc_servedEmpty>>
  /\ UNCHANGED fc_Others

fc_IsPush(t) == fc_calls[t][Len(fc_calls[t])].op = "push"

\* fc_stack.cpp:41 slots[s].op = 1, :59 slots[s].op = 2
fc_post_op(t) ==
  /\ fc_pc[t] = "post_op"
  /\ fc_op' = [fc_op EXCEPT ![fc_s[t]] = IF fc_IsPush(t) THEN 1 ELSE 2]
  /\ fc_popEmpty' = IF fc_IsPush(t) THEN fc_popEmpty
                    ELSE [fc_popEmpty EXCEPT ![fc_s[t]] = FALSE]
  /\ fc_pc' = [fc_pc EXCEPT ![t] = IF fc_IsPush(t) THEN "post_val" ELSE "post_done"]
  /\ fc_applied' = [fc_applied EXCEPT ![fc_s[t]] = 0]
  /\ UNCHANGED <<fc_kind, fc_data, fc_lock, fc_val, fc_result, fc_done, fc_counter,
                 fc_my_slot, fc_s, fc_arg, fc_i, fc_calls, fc_res, fc_servedEmpty>>
  /\ UNCHANGED fc_Others

\* fc_stack.cpp:42 slots[s].val = value
fc_post_val(t) ==
  /\ fc_pc[t] = "post_val"
  /\ fc_val' = [fc_val EXCEPT ![fc_s[t]] = fc_arg[t]]
  /\ fc_pc' = [fc_pc EXCEPT ![t] = "post_done"]
  /\ UNCHANGED <<fc_applied, fc_kind, fc_data, fc_lock, fc_op, fc_result, fc_done, fc_counter,
                 fc_my_slot, fc_s, fc_arg, fc_i, fc_calls, fc_res, fc_popEmpty, fc_servedEmpty>>
  /\ UNCHANGED fc_Others

\* fc_stack.cpp:43, :60 slots[s].done = false
fc_post_done(t) ==
  /\ fc_pc[t] = "post_done"
  /\ fc_done' = [fc_done EXCEPT ![fc_s[t]] = FALSE]
  /\ fc_pc' = [fc_pc EXCEPT ![t] = "try_lock"]
  /\ UNCHANGED <<fc_applied, fc_kind, fc_data, fc_lock, fc_op, fc_val, fc_result, fc_counter,
                 fc_my_slot, fc_s, fc_arg, fc_i, fc_calls, fc_res, fc_popEmpty, fc_servedEmpty>>
  /\ UNCHANGED fc_Others

\* a try_lock that succeeds whoever holds the mutex
fc_TryLockAlways(lock) == TRUE

\* lock.try_lock() succeeds when no thread holds the mutex
fc_TryLockSucceeds(lock) == lock = NoThread

\* fc_stack.cpp:46, :63 if(lock.try_lock()) { combine(); ... } else { spin }
fc_try_lock(t) ==
  /\ fc_pc[t] = "try_lock"
  /\ IF fc_TryLockSucceeds(fc_lock)
       THEN /\ fc_lock' = t
            /\ fc_i' = [fc_i EXCEPT ![t] = 0]
            /\ fc_pc' = [fc_pc EXCEPT ![t] = "combine"]
       ELSE /\ fc_pc' = [fc_pc EXCEPT ![t] = "spin"]
            /\ UNCHANGED <<fc_lock, fc_i>>
  /\ UNCHANGED <<fc_applied, fc_kind, fc_data, fc_op, fc_val, fc_result, fc_done, fc_counter,
                 fc_my_slot, fc_s, fc_arg, fc_calls, fc_res, fc_popEmpty, fc_servedEmpty>>
  /\ UNCHANGED fc_Others

\* combine(), lines 20-23/27: for(...) { int op = slots[i].op.load(); if(op == 1) ...
\* else if(op == 2) ... }; past the last slot the caller goes on to lock.unlock()
fc_combine_load(t) ==
  /\ fc_pc[t] = "combine"
  /\ IF fc_i[t] >= MAX_THREADS
       THEN /\ fc_pc' = [fc_pc EXCEPT ![t] = "unlock"]
            /\ UNCHANGED fc_i
       ELSE IF fc_op[fc_i[t]] = 1
         THEN /\ fc_pc' = [fc_pc EXCEPT ![t] = "combine_push"]
              /\ UNCHANGED fc_i
         ELSE IF fc_op[fc_i[t]] = 2
           THEN /\ fc_pc' = [fc_pc EXCEPT ![t] = "combine_pop"]
                /\ UNCHANGED fc_i
           ELSE /\ fc_i' = [fc_i EXCEPT ![t] = @ + 1]
                /\ UNCHANGED fc_pc
  /\ UNCHANGED <<fc_applied, fc_kind, fc_data, fc_lock, fc_op, fc_val, fc_result, fc_done,
                 fc_counter, fc_my_slot, fc_s, fc_arg, fc_calls, fc_res, fc_popEmpty, fc_servedEmpty>>
  /\ UNCHANGED fc_Others

\* combine(), line 25 (28 in fc_queue.cpp): data.push(slots[i].val)
fc_combine_push(t) ==
  /\ fc_pc[t] = "combine_push"
  /\ fc_data' = Append(fc_data, fc_val[fc_i[t]])
  /\ fc_pc' = [fc_pc EXCEPT ![t] = "combine_done"]
  /\ fc_applied' = [fc_applied EXCEPT ![fc_i[t]] = @ + 1]
  /\ UNCHANGED <<fc_kind, fc_lock, fc_op, fc_val, fc_result, fc_done, fc_counter,
                 fc_my_slot, fc_s, fc_arg, fc_i, fc_calls, fc_res, fc_popEmpty, fc_servedEmpty>>
  /\ UNCHANGED fc_Others

\* data.top() of the stack, data.front() of the queue
fc_Front(kind, data) == IF kind = "stack" THEN data[Len(data)] ELSE data[1]
\* data.pop()
fc_Rest(kind, data) ==
  IF kind = "stack" THEN SubSeq(data, 1, Len(data) - 1) ELSE Tail(data)

\* what the combiner stores in slots[i].result for a pop request (lines 29-32):
\* the element taken, and nothing when data is empty
fc_PopResult(kind, data, old) == IF data # <<>> THEN fc_Front(kind, data) ELSE old

\* combine(), lines 29-32: if(!data.empty()) { slots[i].result = data.top(); data.pop(); }
fc_combine_pop(t) ==
  /\ fc_pc[t] = "combine_pop"
  /\ fc_result' = [fc_result EXCEPT ![fc_i[t]] = fc_PopResult(fc_kind, fc_data, @)]
  /\ fc_data' = IF fc_data # <<>> THEN fc_Rest(fc_kind, fc_data) ELSE fc_data
  /\ fc_popEmpty' = [fc_popEmpty EXCEPT ![fc_i[t]] = (fc_data = <<>>)]
  /\ fc_servedEmpty' = (fc_servedEmpty \/ fc_data = <<>>)
  /\ fc_pc' = [fc_pc EXCEPT ![t] = "combine_done"]
  /\ fc_applied' = [fc_applied EXCEPT ![fc_i[t]] = @ + 1]
  /\ UNCHANGED <<fc_kind, fc_lock, fc_op, fc_val, fc_done, fc_counter, fc_my_slot,
                 fc_s, fc_arg, fc_i, fc_calls, fc_res>>
  /\ UNCHANGED fc_Others

\* combine(), lines 26, 33: slots[i].done = true; and on to the next slot
fc_combine_done(t) ==
  /\ fc_pc[t] = "combine_done"
  /\ fc_done' = [fc_done EXCEPT ![fc_i[t]] = TRUE]
  /\ fc_i' = [fc_i EXCEPT ![t] = @ + 1]
  /\ fc_pc' = [fc_pc EXCEPT ![t] = "combine"]
  /\ UNCHANGED <<fc_applied, fc_kind, fc_data, fc_lock, fc_op, fc_val, fc_result, fc_counter,
                 fc_my_slot, fc_s, fc_arg, fc_calls, fc_res, fc_popEmpty, fc_servedEmpty>>
  /\ UNCHANGED fc_Others

\* fc_stack.cpp:48, :65 lock.unlock()
fc_unlock(t) ==
  /\ fc_pc[t] = "unlock"
  /\ fc_lock' = NoThread
  /\ fc_pc' = [fc_pc EXCEPT ![t] = "reset"]
  /\ UNCHANGED <<fc_applied, fc_kind, fc_data, fc_op, fc_val, fc_result, fc_done, fc_counter,
                 fc_my_slot, fc_s, fc_arg, fc_i, fc_calls, fc_res, fc_popEmpty, fc_servedEmpty>>
  /\ UNCHANGED fc_Others

\* fc_stack.cpp:50, :67 while(!slots[s].done) std::this_thread::yield();
\* a look at done == false changes nothing
fc_spin(t) ==
  /\ fc_pc[t] = "spin"
  /\ fc_done[fc_s[t]]
  /\ fc_pc' = [fc_pc EXCEPT ![t] = "reset"]
  /\ UNCHANGED <<fc_applied, fc_kind, fc_data, fc_lock, fc_op, fc_val, fc_result, fc_done,
                 fc_counter, fc_my_slot, fc_s, fc_arg, fc_i, fc_calls, fc_res, fc_popEmpty, fc_servedEmpty>>
  /\ UNCHANGED fc_Others

\* fc_stack.cpp:53, :70 slots[s].op = 0; push returns here
fc_reset(t) ==
  /\ fc_pc[t] = "reset"
  /\ fc_op' = [fc_op EXCEPT ![fc_s[t]] = 0]
  /\ fc_pc' = [fc_pc EXCEPT ![t] = IF fc_IsPush(t) THEN "idle" ELSE "check_result"]
  /\ UNCHANGED <<fc_applied, fc_kind, fc_data, fc_lock, fc_val, fc_result, fc_done, fc_counter,
                 fc_my_slot, fc_s, fc_arg, fc_i, fc_calls, fc_res, fc_popEmpty, fc_servedEmpty>>
  /\ UNCHANGED fc_Others

\* whether pop() reads the result r as "empty" (fc_stack.cpp:71)
fc_IsEmptyResult(r) == r = FcSentinel

\* fc_stack.cpp:71 if(slots[s].result == -1) throw std::runtime_error("empty");
fc_check_result(t) ==
  /\ fc_pc[t] = "check_result"
  /\ IF fc_IsEmptyResult(fc_result[fc_s[t]])
       THEN /\ fc_res' = [fc_res EXCEPT ![t] = Append(@, EmptyError)]
            /\ fc_pc' = [fc_pc EXCEPT ![t] = "idle"]
       ELSE /\ fc_pc' = [fc_pc EXCEPT ![t] = "return_result"]
            /\ UNCHANGED fc_res
  /\ UNCHANGED <<fc_applied, fc_kind, fc_data, fc_lock, fc_op, fc_val, fc_result, fc_done,
                 fc_counter, fc_my_slot, fc_s, fc_arg, fc_i, fc_calls, fc_popEmpty, fc_servedEmpty>>
  /\ UNCHANGED fc_Others

\* fc_stack.cpp:72 return slots[s].result;
fc_return_result(t) ==
  /\ fc_pc[t] = "return_result"
  /\ fc_res' = [fc_res EXCEPT ![t] = Append(@, Ret(fc_result[fc_s[t]]))]
  /\ fc_pc' = [fc_pc EXCEPT ![t] = "idle"]
  /\ UNCHANGED <<fc_applied, fc_kind, fc_data, fc_lock, fc_op, fc_val, fc_result, fc_done,
                 fc_counter, fc_my_slot, fc_s, fc_arg, fc_i, fc_calls, fc_popEmpty, fc_servedEmpty>>
  /\ UNCHANGED fc_Others

\* the values a thread pushes: distinct ones, id * ops_per_thread + i as the
\* producers of main.cpp (counted from 1), or the value -1
fc_Args(t) == {t * FcMaxOps + Len(fc_calls[t]) + 1, FcSentinel}

\* everything thread t can do
fc_Step(t) ==
  \/ \E v \in fc_Args(t) : fc_push_call(t, v)
  \/ fc_pop_call(t)
  \/ fc_post_op(t)
  \/ fc_post_val(t)
  \/ fc_post_done(t)
  \/ fc_try_lock(t)
  \/ fc_combine_load(t)
  \/ fc_combine_push(t)
  \/ fc_combine_pop(t)
  \/ fc_combine_done(t)
  \/ fc_unlock(t)
  \/ fc_spin(t)
  \/ fc_reset(t)
  \/ fc_check_result(t)
  \/ fc_return_result(t)

fc_Next == \E t \in FcThreads : fc_Step(t)

(***************************************************************************)
(* condvar_no_spurious and bounded_queue.  A thread inside cv.wait is      *)
(* "blocked" (asleep in the primitive) or "woken" (notified, or woken      *)
(* spuriously, and waiting to take the mutex again).                       *)
(***************************************************************************)
\* containers.h:142 and :157: epoch = 0, head(0), tail(0), count(0); the buffer
\* is not initialised (shown as -1), the workload is the set of threads started
bq_Construct(active) ==
  /\ bq_buffer = [i \in 0..(SIZE - 1) |-> -1]
  /\ bq_head = 0
  /\ bq_tail = 0
  /\ bq_count = 0
  /\ bq_lock = NoThread
  /\ bq_epoch = [c \in {"not_full", "not_empty"} |-> 0]
  /\ bq_pc = [t \in BqThreads |-> "idle"]
  /\ bq_my_epoch = [t \in BqThreads |-> 0]
  /\ bq_v = [t \in BqThreads |-> 0]
  /\ bq_k = [t \in BqThreads |-> 0]
  /\ bq_active = active
  /\ bq_got = [t \in BqThreads |-> <<>>]

\* the condition variable a thread waits on: producers on not_full (line 51),
\* consumers on not_empty (line 62)
bq_WaitsOn(t) == IF t \in BqProducers THEN "not_full" ELSE "not_empty"
\* the threads asleep in cv.wait of condition variable c
bq_Blocked(c) == {t \in BqThreads : bq_pc[t] = "blocked" /\ bq_WaitsOn(t) = c}

\* lines 49, 60: std::unique_lock<std::mutex> lk(lock), first thing in a call
bq_lock_acquire(t) ==
  /\ t \in bq_active
  /\ bq_pc[t] = "idle"
  /\ bq_k[t] < BqN
  /\ bq_lock = NoThread
  /\ bq_lock' = t
  /\ bq_pc' = [bq_pc EXCEPT ![t] = "check"]
  /\ UNCHANGED <<bq_buffer, bq_head, bq_tail, bq_count, bq_epoch, bq_my_epoch, bq_v,
                 bq_k, bq_active, bq_got>>
  /\ UNCHANGED bq_Others

\* loops with "if the buffer is more than full" for the producer
bq_MustWaitLate(t, count) == IF t \in BqProducers THEN count > SIZE ELSE count = 0

\* the loop conditions: enqueue line 50 while(count == SIZE), dequeue line 61
\* while(count == 0)
bq_MustWait(t, count) == IF t \in BqProducers THEN count = SIZE ELSE count = 0

\* lines 50-51 / 61-62, and wait() lines 33-34 up to the first sleep: my_epoch
\* = epoch; the predicate epoch != my_epoch is false; cv.wait releases the
\* mutex and sleeps
bq_check(t) ==
  /\ bq_pc[t] \in {"check", "wait_ret"}
  /\ IF bq_MustWait(t, bq_count)
       THEN /\ bq_my_epoch' = [bq_my_epoch EXCEPT ![t] = bq_epoch[bq_WaitsOn(t)]]
            /\ bq_lock' = NoThread
            /\ bq_pc' = [bq_pc EXCEPT ![t] = "blocked"]
       ELSE /\ bq_pc' = [bq_pc EXCEPT ![t] = "body"]
            /\ UNCHANGED <<bq_my_epoch, bq_lock>>
  /\ UNCHANGED <<bq_buffer, bq_head, bq_tail, bq_count, bq_epoch, bq_v, bq_k,
                 bq_active, bq_got>>
  /\ UNCHANGED bq_Others

\* the underlying std::condition_variable wakes a sleeper without a notify
bq_spurious_wakeup(t) ==
  /\ bq_pc[t] = "blocked"
  /\ bq_pc' = [bq_pc EXCEPT ![t] = "woken"]
  /\ UNCHANGED <<bq_buffer, bq_head, bq_tail, bq_count, bq_lock, bq_epoch, bq_my_epoch,
                 bq_v, bq_k, bq_active, bq_got>>
  /\ UNCHANGED bq_Others

\* a wait that returns on any wake-up
cv_PredAlways(epoch, my_epoch) == TRUE

\* the predicate of line 34: [&] { return epoch != my_epoch; }
cv_Pred(epoch, my_epoch) == epoch # my_epoch

\* line 34, cv.wait(lock, pred) after a wake-up: take the mutex again, test the
\* predicate, return if it holds and sleep again (releasing the mutex) if not
bq_wait_wake(t) ==
  /\ bq_pc[t] = "woken"
  /\ bq_lock = NoThread
  /\ IF cv_Pred(bq_epoch[bq_WaitsOn(t)], bq_my_epoch[t])
       THEN /\ bq_lock' = t
            /\ bq_pc' = [bq_pc EXCEPT ![t] = "wait_ret"]
       ELSE /\ bq_pc' = [bq_pc EXCEPT ![t] = "blocked"]
            /\ UNCHANGED bq_lock
  /\ UNCHANGED <<bq_buffer, bq_head, bq_tail, bq_count, bq_epoch, bq_my_epoch, bq_v,
                 bq_k, bq_active, bq_got>>
  /\ UNCHANGED bq_Others

\* an index that runs off the end of the buffer
bq_AdvanceNoWrap(i) == i + 1

\* lines 54 and 65: tail = (tail + 1) % SIZE, head = (head + 1) % SIZE
bq_Advance(i) == (i + 1) % SIZE

\* the value the producer passes: bq.enqueue(i) of test_condvar (main.cpp:80),
\* made distinct between producers
bq_Arg(t) == t * BqN + bq_k[t]

\* enqueue lines 53-55: buffer[tail] = v; tail = (tail + 1) % SIZE; count++;
bq_enq_put(t) ==
  /\ t \in BqProducers
  /\ bq_pc[t] = "body"
  /\ bq_buffer' = [bq_buffer EXCEPT ![bq_tail] = bq_Arg(t)]
  /\ bq_tail' = bq_Advance(bq_tail)
  /\ bq_count' = bq_count + 1
  /\ bq_pc' = [bq_pc EXCEPT ![t] = "signal"]
  /\ UNCHANGED <<bq_head, bq_lock, bq_epoch, bq_my_epoch, bq_v, bq_k, bq_active, bq_got>>
  /\ UNCHANGED bq_Others

\* reading the slot at tail
bq_deq_slotTail(head, tail) == tail

\* the slot dequeue reads, line 64: buffer[head]
bq_deq_slot(head, tail) == head

\* dequeue lines 64-66: int v = buffer[head]; head = (head + 1) % SIZE; count--;
bq_deq_take(t) ==
  /\ t \in BqConsumers
  /\ bq_pc[t] = "body"
  /\ bq_v' = [bq_v EXCEPT ![t] = bq_buffer[bq_deq_slot(bq_head, bq_tail)]]
  /\ bq_head' = bq_Advance(bq_head)
  /\ bq_count' = bq_count - 1
  /\ bq_pc' = [bq_pc EXCEPT ![t] = "signal"]
  /\ UNCHANGED <<bq_buffer, bq_tail, bq_lock, bq_epoch, bq_my_epoch, bq_k, bq_active,
                 bq_got>>
  /\ UNCHANGED bq_Others

\* both operations signalling not_empty
bq_SignalsNotEmpty(t) == "not_empty"

\* the condition variable a thread signals: enqueue line 56 not_empty.signal(),
\* dequeue line 68 not_full.signal()
bq_Signals(t) == IF t \in BqProducers THEN "not_empty" ELSE "not_full"

\* signal(), lines 38-39: ++epoch; cv.notify_one() wakes one sleeper, if any
bq_signal(t) ==
  /\ bq_pc[t] = "signal"
  /\ bq_epoch' = [bq_epoch EXCEPT ![bq_Signals(t)] = @ + 1]
  /\ IF bq_Blocked(bq_Signals(t)) = {}
       THEN bq_pc' = [bq_pc EXCEPT ![t] = "return"]
       ELSE \E w \in bq_Blocked(bq_Signals(t)) :
              bq_pc' = [bq_pc EXCEPT ![t] = "return", ![w] = "woken"]
  /\ UNCHANGED <<bq_buffer, bq_head, bq_tail, bq_count, bq_lock, bq_my_epoch, bq_v,
                 bq_k, bq_active, bq_got>>
  /\ UNCHANGED bq_Others

\* lines 57, 69-70: return (v); lk's destructor releases the mutex
bq_return(t) ==
  /\ bq_pc[t] = "return"
  /\ bq_lock' = NoThread
  /\ bq_k' = [bq_k EXCEPT ![t] = @ + 1]
  /\ bq_got' = IF t \in BqConsumers THEN [bq_got EXCEPT ![t] = Append(@, bq_v[t])]
               ELSE bq_got
  /\ bq_pc' = [bq_pc EXCEPT ![t] = "idle"]
  /\ UNCHANGED <<bq_buffer, bq_head, bq_tail, bq_count, bq_epoch, bq_my_epoch, bq_v,
                 bq_active>>
  /\ UNCHANGED bq_Others

\* what a scheduled thread does; a spurious wake-up is not the thread's doing
bq_Step(t) ==
  \/ bq_lock_acquire(t)
  \/ bq_check(t)
  \/ bq_wait_wake(t)
  \/ bq_enq_put(t)
  \/ bq_deq_take(t)
  \/ bq_signal(t)
  \/ bq_return(t)

bq_Next == \E t \in BqThreads : bq_Step(t) \/ bq_spurious_wakeup(t)

(***************************************************************************)
(* condvar_no_spurious on its own: threads that call wait(), signal() and  *)
(* broadcast() on one object.  Every caller holds the mutex around the     *)
(* call, as bounded_queue does (epoch is a plain std::size_t).             *)
(***************************************************************************)
\* containers.h:142: std::size_t epoch = 0
cv_Construct ==
  /\ cv_epoch = 0
  /\ cv_lock = NoThread
  /\ cv_pc = [t \in CvThreads |-> "idle"]
  /\ cv_my_epoch = [t \in CvThreads |-> 0]
  /\ cv_k = [t \in CvThreads |-> 0]
  /\ cv_nsignal = 0
  /\ cv_nbroadcast = 0
  /\ cv_returned = [e \in 0..(CvMaxNotifies * Cardinality(CvNotifiers)) |-> {}]
  /\ cv_pending = {}

\* calls a thread makes
cv_Budget(t) == IF t \in CvWaiters THEN CvMaxWaits ELSE CvMaxNotifies

\* the threads inside wait(): asleep in cv.wait, or woken and waiting for the mutex
cv_InWait == {t \in CvThreads : cv_pc[t] \in {"blocked", "woken"}}
\* the threads asleep in cv.wait
cv_Asleep == {t \in CvThreads : cv_pc[t] = "blocked"}

\* the caller takes the mutex: std::unique_lock<std::mutex> lk(lock)
cv_lock_acquire(t) ==
  /\ cv_pc[t] = "idle"
  /\ cv_k[t] < cv_Budget(t)
  /\ cv_lock = NoThread
  /\ cv_lock' = t
  /\ cv_pc' = [cv_pc EXCEPT ![t] = "locked"]
  /\ UNCHANGED <<cv_epoch, cv_my_epoch, cv_k, cv_nsignal, cv_nbroadcast, cv_returned,
                 cv_pending>>
  /\ UNCHANGED cv_Others

\* wait() lines 33-34 up to the sleep: my_epoch = epoch; the predicate is
\* false; cv.wait releases the mutex and sleeps
cv_wait_enter(t) ==
  /\ t \in CvWaiters
  /\ cv_pc[t] = "locked"
  /\ cv_my_epoch' = [cv_my_epoch EXCEPT ![t] = cv_epoch]
  /\ cv_lock' = NoThread
  /\ cv_pc' = [cv_pc EXCEPT ![t] = "blocked"]
  /\ UNCHANGED <<cv_epoch, cv_k, cv_nsignal, cv_nbroadcast, cv_returned, cv_pending>>
  /\ UNCHANGED cv_Others

\* the underlying std::condition_variable wakes a sleeper without a notify
cv_spurious_wakeup(t) ==
  /\ cv_pc[t] = "blocked"
  /\ cv_pc' = [cv_pc EXCEPT ![t] = "woken"]
  /\ UNCHANGED <<cv_epoch, cv_lock, cv_my_epoch, cv_k, cv_nsignal, cv_nbroadcast,
                 cv_returned, cv_pending>>
  /\ UNCHANGED cv_Others

\* line 34, cv.wait(lock, pred) after a wake-up: take the mutex again, test the
\* predicate, return from wait() if it holds and sleep again if not
cv_wait_wake(t) ==
  /\ cv_pc[t] = "woken"
  /\ cv_lock = NoThread
  /\ IF cv_Pred(cv_epoch, cv_my_epoch[t])
       THEN /\ cv_lock' = t
            /\ cv_pc' = [cv_pc EXCEPT ![t] = "wait_ret"]
            /\ cv_returned' = [cv_returned EXCEPT ![cv_my_epoch[t]] = @ \cup {t}]
            /\ cv_pending' = cv_pending \ {t}
       ELSE /\ cv_pc' = [cv_pc EXCEPT ![t] = "blocked"]
            /\ UNCHANGED <<cv_lock, cv_returned, cv_pending>>
  /\ UNCHANGED <<cv_epoch, cv_my_epoch, cv_k, cv_nsignal, cv_nbroadcast>>
  /\ UNCHANGED cv_Others

\* a notify_all that wakes nobody
cv_NotifyNone(asleep) == {}

\* cv.notify_all(), line 44: every sleeper is woken
cv_NotifyAll(asleep) == asleep

\* signal(), lines 38-39: ++epoch; cv.notify_one() wakes one sleeper, if any
cv_signal(t) ==
  /\ t \in CvNotifiers
  /\ cv_pc[t] = "locked"
  /\ cv_epoch' = cv_epoch + 1
  /\ cv_nsignal' = cv_nsignal + 1
  /\ IF cv_Asleep = {}
       THEN cv_pc' = [cv_pc EXCEPT ![t] = "notified"]
       ELSE \E w \in cv_Asleep :
              cv_pc' = [cv_pc EXCEPT ![t] = "notified", ![w] = "woken"]
  /\ UNCHANGED <<cv_lock, cv_my_epoch, cv_k, cv_nbroadcast, cv_returned, cv_pending>>
  /\ UNCHANGED cv_Others

\* broadcast(), lines 43-44: ++epoch; cv.notify_all()
cv_broadcast(t) ==
  /\ t \in CvNotifiers
  /\ cv_pc[t] = "locked"
  /\ cv_epoch' = cv_epoch + 1
  /\ cv_nbroadcast' = cv_nbroadcast + 1
  /\ cv_pc' = [u \in CvThreads |->
                 IF u = t THEN "notified"
                 ELSE IF u \in cv_NotifyAll(cv_Asleep) THEN "woken" ELSE cv_pc[u]]
  /\ cv_pending' = cv_pending \cup cv_InWait
  /\ UNCHANGED <<cv_lock, cv_my_epoch, cv_k, cv_nsignal, cv_returned>>
  /\ UNCHANGED cv_Others

\* the caller's unique_lock goes out of scope
cv_unlock(t) ==
  /\ cv_pc[t] \in {"wait_ret", "notified"}
  /\ cv_lock' = NoThread
  /\ cv_k' = [cv_k EXCEPT ![t] = @ + 1]
  /\ cv_pc' = [cv_pc EXCEPT ![t] = "idle"]
  /\ UNCHANGED <<cv_epoch, cv_my_epoch, cv_nsignal, cv_nbroadcast, cv_returned,
                 cv_pending>>
  /\ UNCHANGED cv_Others

\* what a scheduled thread does; a spurious wake-up is not the thread's doing
cv_Step(t) ==
  \/ cv_lock_acquire(t)
  \/ cv_wait_enter(t)
  \/ cv_wait_wake(t)
  \/ cv_signal(t)
  \/ cv_broadcast(t)
  \/ cv_unlock(t)

cv_Next == \E t \in CvThreads : cv_Step(t) \/ cv_spurious_wakeup(t)

(***************************************************************************)
(* elimination_stack.  rand() % ELIM_SIZE is any slot of the array.        *)
(***************************************************************************)
\* containers.h:82-87: top(nullptr), elim_ops[i] = 0, elim_vals[i] = 0
es_Construct(paired) ==
  /\ es_top = NULL
  /\ es_value = <<>>
  /\ es_next = <<>>
  /\ es_ops = [i \in 0..(ELIM_SIZE - 1) |-> 0]
  /\ es_vals = [i \in 0..(ELIM_SIZE - 1) |-> 0]
  /\ es_pc = [t \in EsThreads |-> "idle"]
  /\ es_n = [t \in EsThreads |-> NULL]
  /\ es_old_top = [t \in EsThreads |-> NULL]
  /\ es_nxt = [t \in EsThreads |-> NULL]
  /\ es_v = [t \in EsThreads |-> 0]
  /\ es_calls = [t \in EsThreads |-> <<>>]
  /\ es_res = [t \in EsThreads |-> <<>>]
  /\ es_paired = paired

es_Fresh == es_Construct(TRUE)

\* top.compare_exchange_weak(expected, desired) may succeed only when top holds
\* expected; the weak form may also fail when it does
es_CasMaySucceed(cur, expected) == cur = expected

\* a push that takes an idle slot for a waiting pop
es_push_matchesIdle(op) == op = 0

\* push, lines 25-26: int expected = 2; elim_ops[slot].compare_exchange_strong(expected, 0)
es_push_matches(op) == op = 2

\* a pop that takes an idle slot for a waiting push
es_pop_matchesIdle(op) == op = 0

\* pop, lines 46-47: int expected = 1; elim_ops[slot].compare_exchange_strong(expected, 0)
es_pop_matches(op) == op = 1

\* push(value), lines 21-31: n = new node(value); slot = rand() % ELIM_SIZE; the
\* compare_exchange_strong on elim_ops[slot]; on success elim_vals[slot] = value
\* and return (the two stores are one step here: nothing stores 2 in elim_ops)
es_push_elim(t, v, slot) ==
  /\ es_pc[t] = "idle"
  /\ Len(es_calls[t]) < 2 * EsMaxPairs
  /\ es_paired => Len(es_calls[t]) % 2 = 0
  /\ es_value' = Append(es_value, v)
  /\ es_next' = Append(es_next, NULL)
  /\ es_n' = [es_n EXCEPT ![t] = Len(es_value) + 1]
  /\ es_calls' = [es_calls EXCEPT ![t] = Append(@, PushCall(v))]
  /\ IF es_push_matches(es_ops[slot])
       THEN /\ es_ops' = [es_ops EXCEPT ![slot] = 0]
            /\ es_vals' = [es_vals EXCEPT ![slot] = v]
            /\ UNCHANGED es_pc
       ELSE /\ es_pc' = [es_pc EXCEPT ![t] = "push_load"]
            /\ UNCHANGED <<es_ops, es_vals>>
  /\ UNCHANGED <<es_top, es_old_top, es_nxt, es_v, es_res>>
  /\ UNCHANGED es_paired
  /\ UNCHANGED es_Others

\* line 35: node* old_top = top.load()
es_push_load(t) ==
  /\ es_pc[t] = "push_load"
  /\ es_old_top' = [es_old_top EXCEPT ![t] = es_top]
  /\ es_pc' = [es_pc EXCEPT ![t] = "push_link"]
  /\ UNCHANGED <<es_top, es_value, es_next, es_ops, es_vals, es_n, es_nxt, es_v,
                 es_calls, es_res>>
  /\ UNCHANGED es_paired
  /\ UNCHANGED es_Others

\* line 36: n->next = old_top
es_push_link(t) ==
  /\ es_pc[t] = "push_link"
  /\ es_next' = [es_next EXCEPT ![es_n[t]] = es_old_top[t]]
  /\ es_pc' = [es_pc EXCEPT ![t] = "push_cas"]
  /\ UNCHANGED <<es_top, es_value, es_ops, es_vals, es_n, es_old_top, es_nxt, es_v,
                 es_calls, es_res>>
  /\ UNCHANGED es_paired
  /\ UNCHANGED es_Others

\* line 37: if(top.compare_exchange_weak(old_top, n)) return;
es_push_cas(t) ==
  /\ es_pc[t] = "push_cas"
  /\ \/ /\ es_CasMaySucceed(es_top, es_old_top[t])
        /\ es_top' = es_n[t]
        /\ es_pc' = [es_pc EXCEPT ![t] = "idle"]
        /\ UNCHANGED es_old_top
     \/ /\ es_old_top' = [es_old_top EXCEPT ![t] = es_top]
        /\ es_pc' = [es_pc EXCEPT ![t] = "push_load"]
        /\ UNCHANGED es_top
  /\ UNCHANGED <<es_value, es_next, es_ops, es_vals, es_n, es_nxt, es_v, es_calls,
                 es_res>>
  /\ UNCHANGED es_paired
  /\ UNCHANGED es_Others

\* pop(), lines 43-50: slot = rand() % ELIM_SIZE; the compare_exchange_strong on
\* elim_ops[slot]; on success return elim_vals[slot].load()
es_pop_elim(t, slot) ==
  /\ es_pc[t] = "idle"
  /\ Len(es_calls[t]) < 2 * EsMaxPairs
  /\ es_paired => Len(es_calls[t]) % 2 = 1
  /\ es_calls' = [es_calls EXCEPT ![t] = Append(@, PopCall)]
  /\ IF es_pop_matches(es_ops[slot])
       THEN /\ es_ops' = [es_ops EXCEPT ![slot] = 0]
            /\ es_res' = [es_res EXCEPT ![t] = Append(@, Ret(es_vals[slot]))]
            /\ UNCHANGED es_pc
       ELSE /\ es_pc' = [es_pc EXCEPT ![t] = "pop_load"]
            /\ UNCHANGED <<es_ops, es_res>>
  /\ UNCHANGED <<es_top, es_value, es_next, es_vals, es_n, es_old_top, es_nxt, es_v>>
  /\ UNCHANGED es_paired
  /\ UNCHANGED es_Others

\* line 54: node* old_top = top.load()
es_pop_load(t) ==
  /\ es_pc[t] = "pop_load"
  /\ es_old_top' = [es_old_top EXCEPT ![t] = es_top]
  /\ es_pc' = [es_pc EXCEPT ![t] = "pop_check"]
  /\ UNCHANGED <<es_top, es_value, es_next, es_ops, es_vals, es_n, es_nxt, es_v,
                 es_calls, es_res>>
  /\ UNCHANGED es_paired
  /\ UNCHANGED es_Others

\* line 55: if(!old_top) throw std::runtime_error("empty");
\* lines 57-58: node* next = old_top->next; int v = old_top->value;
es_pop_read(t) ==
  /\ es_pc[t] = "pop_check"
  /\ IF es_old_top[t] = NULL
       THEN /\ es_res' = [es_res EXCEPT ![t] = Append(@, EmptyError)]
            /\ es_pc' = [es_pc EXCEPT ![t] = "idle"]
            /\ UNCHANGED <<es_nxt, es_v>>
       ELSE /\ es_nxt' = [es_nxt EXCEPT ![t] = es_next[es_old_top[t]]]
            /\ es_v' = [es_v EXCEPT ![t] = es_value[es_old_top[t]]]
            /\ es_pc' = [es_pc EXCEPT ![t] = "pop_cas"]
            /\ UNCHANGED es_res
  /\ UNCHANGED <<es_top, es_value, es_next, es_ops, es_vals, es_n, es_old_top,
                 es_calls>>
  /\ UNCHANGED es_paired
  /\ UNCHANGED es_Others

\* line 59: if(top.compare_exchange_weak(old_top, next)) return v;
es_pop_cas(t) ==
  /\ es_pc[t] = "pop_cas"
  /\ \/ /\ es_CasMaySucceed(es_top, es_old_top[t])
        /\ es_top' = es_nxt[t]
        /\ es_res' = [es_res EXCEPT ![t] = Append(@, Ret(es_v[t]))]
        /\ es_pc' = [es_pc EXCEPT ![t] = "idle"]
        /\ UNCHANGED es_old_top
     \/ /\ es_old_top' = [es_old_top EXCEPT ![t] = es_top]
        /\ es_pc' = [es_pc EXCEPT ![t] = "pop_load"]
        /\ UNCHANGED <<es_top, es_res>>
  /\ UNCHANGED <<es_value, es_next, es_ops, es_vals, es_n, es_nxt, es_v, es_calls>>
  /\ UNCHANGED es_paired
  /\ UNCHANGED es_Others

\* the values are disjoint per thread and none is 0
RECURSIVE es_Chain(_)
es_Chain(p) == IF p = NULL THEN <<>> ELSE <<es_value[p]>> \o es_Chain(es_next[p])

es_Arg(t) == t * EsMaxPairs + (Len(es_calls[t]) \div 2) + 1

\* each worker alternates push and pop (main.cpp:104-107)
es_Next ==
  \E t \in EsThreads :
    \/ \E slot \in 0..(ELIM_SIZE - 1) : es_push_elim(t, es_Arg(t), slot)
    \/ es_push_load(t)
    \/ es_push_link(t)
    \/ es_push_cas(t)
    \/ \E slot \in 0..(ELIM_SIZE - 1) : es_pop_elim(t, slot)
    \/ es_pop_load(t)
    \/ es_pop_read(t)
    \/ es_pop_cas(t)

(***************************************************************************)
(* sgl_stack and sgl_queue.  The two classes differ only in data.top()     *)
(* against data.front().  A call begins when its lock_guard has the mutex. *)
(***************************************************************************)
\* containers.h:23-38: default-constructed data and lock
sg_Construct(kind) ==
  /\ sg_kind = kind
  /\ sg_data = <<>>
  /\ sg_lock = NoThread
  /\ sg_pc = [t \in SgThreads |-> "idle"]
  /\ sg_arg = [t \in SgThreads |-> 0]
  /\ sg_v = [t \in SgThreads |-> 0]
  /\ sg_calls = [t \in SgThreads |-> <<>>]
  /\ sg_res = [t \in SgThreads |-> <<>>]

\* push(value), sgl_stack.cpp:12: std::lock_guard<std::mutex> lk(lock)
sg_push_lock(t, v) ==
  /\ sg_pc[t] = "idle"
  /\ Len(sg_calls[t]) < SgMaxOps
  /\ sg_lock = NoThread
  /\ sg_lock' = t
  /\ sg_arg' = [sg_arg EXCEPT ![t] = v]
  /\ sg_calls' = [sg_calls EXCEPT ![t] = Append(@, PushCall(v))]
  /\ sg_pc' = [sg_pc EXCEPT ![t] = "push_body"]
  /\ UNCHANGED <<sg_kind, sg_data, sg_v, sg_res>>
  /\ UNCHANGED sg_Others

\* line 13: data.push(value)
sg_push_body(t) ==
  /\ sg_pc[t] = "push_body"
  /\ sg_data' = Append(sg_data, sg_arg[t])
  /\ sg_pc' = [sg_pc EXCEPT ![t] = "push_ret"]
  /\ UNCHANGED <<sg_kind, sg_lock, sg_arg, sg_v, sg_calls, sg_res>>
  /\ UNCHANGED sg_Others

\* pop(), line 18: std::lock_guard<std::mutex> lk(lock)
sg_pop_lock(t) ==
  /\ sg_pc[t] = "idle"
  /\ Len(sg_calls[t]) < SgMaxOps
  /\ sg_lock = NoThread
  /\ sg_lock' = t
  /\ sg_calls' = [sg_calls EXCEPT ![t] = Append(@, PopCall)]
  /\ sg_pc' = [sg_pc EXCEPT ![t] = "pop_check"]
  /\ UNCHANGED <<sg_kind, sg_data, sg_arg, sg_v, sg_res>>
  /\ UNCHANGED sg_Others

\* line 19: if(data.empty()) throw std::runtime_error("empty");
sg_pop_check(t) ==
  /\ sg_pc[t] = "pop_check"
  /\ sg_pc' = [sg_pc EXCEPT ![t] = IF sg_data = <<>> THEN "pop_throw" ELSE "pop_top"]
  /\ UNCHANGED <<sg_kind, sg_data, sg_lock, sg_arg, sg_v, sg_calls, sg_res>>
  /\ UNCHANGED sg_Others

\* an exception that leaves the mutex with the thrower
sg_KeptOnUnwind(t) == t

\* the lock_guard of line 18 is destroyed when the exception leaves pop()
sg_ReleasedOnUnwind(t) == NoThread

\* the exception of line 19 leaves pop(): the caller gets the empty error
sg_pop_unwind(t) ==
  /\ sg_pc[t] = "pop_throw"
  /\ sg_lock' = sg_ReleasedOnUnwind(t)
  /\ sg_res' = [sg_res EXCEPT ![t] = Append(@, EmptyError)]
  /\ sg_pc' = [sg_pc EXCEPT ![t] = "idle"]
  /\ UNCHANGED <<sg_kind, sg_data, sg_arg, sg_v, sg_calls>>
  /\ UNCHANGED sg_Others

\* sgl_stack.cpp:20 data.top(), sgl_queue.cpp:20 data.front()
sg_Front(kind, data) == IF kind = "stack" THEN data[Len(data)] ELSE Head(data)
\* line 21: data.pop()
sg_Rest(kind, data) ==
  IF kind = "stack" THEN SubSeq(data, 1, Len(data) - 1) ELSE Tail(data)

\* line 20: int v = data.top();
sg_pop_top(t) ==
  /\ sg_pc[t] = "pop_top"
  /\ sg_v' = [sg_v EXCEPT ![t] = sg_Front(sg_kind, sg_data)]
  /\ sg_pc' = [sg_pc EXCEPT ![t] = "pop_pop"]
  /\ UNCHANGED <<sg_kind, sg_data, sg_lock, sg_arg, sg_calls, sg_res>>
  /\ UNCHANGED sg_Others

\* line 21: data.pop();
sg_pop_pop(t) ==
  /\ sg_pc[t] = "pop_pop"
  /\ sg_data' = sg_Rest(sg_kind, sg_data)
  /\ sg_pc' = [sg_pc EXCEPT ![t] = "pop_ret"]
  /\ UNCHANGED <<sg_kind, sg_lock, sg_arg, sg_v, sg_calls, sg_res>>
  /\ UNCHANGED sg_Others

\* lines 14, 22-23: return (v); the lock_guard releases the mutex
sg_return(t) ==
  /\ sg_pc[t] \in {"push_ret", "pop_ret"}
  /\ sg_lock' = NoThread
  /\ sg_res' = IF sg_pc[t] = "pop_ret" THEN [sg_res EXCEPT ![t] = Append(@, Ret(sg_v[t]))]
               ELSE sg_res
  /\ sg_pc' = [sg_pc EXCEPT ![t] = "idle"]
  /\ UNCHANGED <<sg_kind, sg_data, sg_arg, sg_v, sg_calls>>
  /\ UNCHANGED sg_Others

\* the workers of main.cpp push distinct values: s.push(id * ops_per_thread + i)
sg_Arg(t) == t * SgMaxOps + Len(sg_calls[t]) + 1

\* everything thread t can do
sg_Step(t) ==
  \/ sg_push_lock(t, sg_Arg(t))
  \/ sg_push_body(t)
  \/ sg_pop_lock(t)
  \/ sg_pop_check(t)
  \/ sg_pop_unwind(t)
  \/ sg_pop_top(t)
  \/ sg_pop_pop(t)
  \/ sg_return(t)

sg_Next == \E t \in SgThreads : sg_Step(t)

(***************************************************************************)
(* get_slot() of fc_stack and fc_queue on its own, with one thread more    *)
(* than slots[] has entries.                                               *)
(***************************************************************************)
\* fc_stack.cpp:13, fc_queue.cpp:13-15: counter(0); no thread has a slot yet
gs_Start(kind) ==
  /\ gs_kind = kind
  /\ gs_counter = 0
  /\ gs_my_slot = [t \in GsThreads |-> -1]
  /\ gs_pc = [t \in GsThreads |-> "idle"]
  /\ gs_rets = [t \in GsThreads |-> <<>>]

\* fc_stack.cpp:14 static thread_local int my_slot = counter.fetch_add(1), run
\* by the thread's first call; fc_queue.cpp:14-17 if(my_slot == -1) my_slot =
\* counter.fetch_add(1) % MAX_THREADS
gs_assign(t) ==
  /\ gs_pc[t] = "idle"
  /\ Len(gs_rets[t]) < GsMaxCalls
  /\ IF gs_my_slot[t] = -1
       THEN /\ gs_my_slot' = [gs_my_slot EXCEPT ![t] = fc_SlotOf(gs_kind, gs_counter)]
            /\ gs_counter' = gs_counter + 1
       ELSE UNCHANGED <<gs_my_slot, gs_counter>>
  /\ gs_pc' = [gs_pc EXCEPT ![t] = "return"]
  /\ UNCHANGED <<gs_kind, gs_rets>>
  /\ UNCHANGED gs_Others

\* fc_stack.cpp:15, fc_queue.cpp:18: return my_slot
gs_return(t) ==
  /\ gs_pc[t] = "return"
  /\ gs_rets' = [gs_rets EXCEPT ![t] = Append(@, gs_my_slot[t])]
  /\ gs_pc' = [gs_pc EXCEPT ![t] = "idle"]
  /\ UNCHANGED <<gs_kind, gs_counter, gs_my_slot>>
  /\ UNCHANGED gs_Others

gs_Next == \E t \in GsThreads : gs_assign(t) \/ gs_return(t)

(***************************************************************************)
(* The specifications.  One container is exercised at a time; the others   *)
(* stay as constructed, with no thread started on them.                    *)
(***************************************************************************)
fc_Idle == fc_Construct("stack", [i \in FcSlots |-> 0], [i \in FcSlots |-> 0])
bq_Idle == bq_Construct({})
cv_Idle == cv_Construct
sg_Idle == sg_Construct("stack")
gs_Idle == gs_Start("stack")

ts_Init == ts_Fresh /\ mq_Fresh /\ fc_Idle /\ bq_Idle /\ cv_Idle /\ es_Fresh /\ sg_Idle /\ gs_Idle
SpecTreiber == ts_Init /\ [][ts_Next]_vars

RECURSIVE ts_SumLen(_)
ts_SumLen(S) ==
  IF S = {} THEN 0
  ELSE LET t == CHOOSE x \in S : TRUE IN Len(ts_calls[t]) + ts_SumLen(S \ {t})

\* calls started so far by all threads together
ts_Started == ts_SumLen(TsThreads)

\* a step of thread t while the threads together start at most TsFairCalls calls
ts_FairStep(t) ==
  /\ ts_pc[t] = "idle" => ts_Started < TsFairCalls
  /\ ts_Step(t)

\* a step of thread t in which its compare_exchange_weak on top succeeds
ts_CasWins(t) ==
  /\ ts_pc[t] \in {"push_cas", "pop_cas"}
  /\ ts_Step(t)
  /\ ts_pc'[t] = "idle"

ts_FairNext == \E t \in TsThreads : ts_FairStep(t)

\* every thread that can take a step is scheduled again, and a
\* compare_exchange_weak that is tried again and again while top holds the
\* expected pointer does not fail spuriously for ever
FairSpecTreiber ==
  /\ ts_Init
  /\ [][ts_FairNext]_vars
  /\ \A t \in TsThreads : WF_vars(ts_FairStep(t)) /\ SF_vars(ts_CasWins(t))

mq_Init == mq_Fresh /\ ts_Fresh /\ fc_Idle /\ bq_Idle /\ cv_Idle /\ es_Fresh /\ sg_Idle /\ gs_Idle
SpecMSQ == mq_Init /\ [][mq_Next]_vars

\* calls started so far by all threads together
mq_Started == mq_SumLen(MqThreads)

\* a step of thread t while the threads together start at most MqFairCalls calls
mq_FairStep(t) ==
  /\ mq_pc[t] = "idle" => mq_Started < MqFairCalls
  /\ mq_Step(t)

\* a step of thread t in which one of its compare_exchange_weak calls succeeds
mq_CasWins(t) ==
  /\ mq_pc[t] \in {"enq_link", "enq_swing", "enq_help", "deq_help", "deq_cas"}
  /\ mq_Step(t)
  /\ <<mq_head, mq_tail, mq_next>>' # <<mq_head, mq_tail, mq_next>>

mq_FairNext == \E t \in MqThreads : mq_FairStep(t)

\* every thread that can take a step is scheduled again, and a
\* compare_exchange_weak that is tried again and again on a cell that holds the
\* expected value does not fail spuriously for ever
FairSpecMSQ ==
  /\ mq_Init
  /\ [][mq_FairNext]_vars
  /\ \A t \in MqThreads : WF_vars(mq_FairStep(t)) /\ SF_vars(mq_CasWins(t))

\* either class, with any garbage in the fields the constructor leaves alone
\* (the same in every slot)
fc_Init ==
  /\ \E kind \in {"stack", "queue"} : \E gv, gr \in FcGarbage :
        fc_Construct(kind, [i \in FcSlots |-> gv], [i \in FcSlots |-> gr])
  /\ ts_Fresh /\ mq_Fresh /\ bq_Idle /\ cv_Idle /\ es_Fresh /\ sg_Idle /\ gs_Idle
SpecFC == fc_Init /\ [][fc_Next]_vars
\* every thread that can take a step is scheduled again
FairSpecFC == SpecFC /\ \A t \in FcThreads : WF_vars(fc_Step(t))

\* the workloads: one or two producers against one or two consumers
BqWorkloads == {{0, 2}, {0, 1, 2}, {0, 2, 3}, {0, 1, 2, 3}}
bq_Init ==
  /\ \E active \in BqWorkloads : bq_Construct(active)
  /\ ts_Fresh /\ mq_Fresh /\ fc_Idle /\ cv_Idle /\ es_Fresh /\ sg_Idle /\ gs_Idle
SpecBQ == bq_Init /\ [][bq_Next]_vars
\* every thread that can take a step is scheduled again; nothing promises a
\* spurious wake-up
FairSpecBQ == SpecBQ /\ \A t \in BqThreads : WF_vars(bq_Step(t))

\* the workloads with a single producer
BqWorkloads1 == {w \in BqWorkloads : Cardinality(w \cap BqProducers) = 1}
bq_Init1 ==
  /\ \E active \in BqWorkloads1 : bq_Construct(active)
  /\ ts_Fresh /\ mq_Fresh /\ fc_Idle /\ cv_Idle /\ es_Fresh /\ sg_Idle /\ gs_Idle
FairSpecBQ1 ==
  bq_Init1 /\ [][bq_Next]_vars /\ \A t \in BqThreads : WF_vars(bq_Step(t))

cv_Init == cv_Construct /\ ts_Fresh /\ mq_Fresh /\ fc_Idle /\ bq_Idle /\ es_Fresh /\ sg_Idle /\ gs_Idle
SpecCV == cv_Init /\ [][cv_Next]_vars
\* every thread that can take a step is scheduled again; nothing promises a
\* spurious wake-up
FairSpecCV == SpecCV /\ \A t \in CvThreads : WF_vars(cv_Step(t))

es_Init == es_Fresh /\ ts_Fresh /\ mq_Fresh /\ fc_Idle /\ bq_Idle /\ cv_Idle /\ sg_Idle /\ gs_Idle
SpecElim == es_Init /\ [][es_Next]_vars

\* the threads call push and pop in any order
es_InitAny ==
  /\ es_Construct(FALSE)
  /\ ts_Fresh /\ mq_Fresh /\ fc_Idle /\ bq_Idle /\ cv_Idle /\ sg_Idle /\ gs_Idle
SpecElimAny == es_InitAny /\ [][es_Next]_vars

sg_Init ==
  /\ \E kind \in {"stack", "queue"} : sg_Construct(kind)
  /\ ts_Fresh /\ mq_Fresh /\ fc_Idle /\ bq_Idle /\ cv_Idle /\ es_Fresh /\ gs_Idle
SpecSGL == sg_Init /\ [][sg_Next]_vars
\* every thread that can take a step is scheduled again
FairSpecSGL == SpecSGL /\ \A t \in SgThreads : WF_vars(sg_Step(t))

gs_Init ==
  /\ \E kind \in {"stack", "queue"} : gs_Start(kind)
  /\ ts_Fresh /\ mq_Fresh /\ fc_Idle /\ bq_Idle /\ cv_Idle /\ es_Fresh /\ sg_Idle
SpecGetSlot == gs_Init /\ [][gs_Next]_vars

(***************************************************************************)
(* treiber_stack: properties                                               *)
(***************************************************************************)
\* the calls of thread t that have returned
ts_Returned(t) ==
  IF ts_pc[t] = "idle" THEN ts_calls[t] ELSE SubSeq(ts_calls[t], 1, Len(ts_calls[t]) - 1)

RECURSIVE ts_PushVals(_)
ts_PushVals(calls) ==
  IF calls = <<>> THEN <<>>
  ELSE (IF Head(calls).op = "push" THEN <<Head(calls).v>> ELSE <<>>) \o ts_PushVals(Tail(calls))

RECURSIVE ts_PopVals(_)
ts_PopVals(res) ==
  IF res = <<>> THEN <<>>
  ELSE (IF Head(res).empty THEN <<>> ELSE <<Head(res).v>>) \o ts_PopVals(Tail(res))

RECURSIVE SumBags(_, _)
SumBags(f, S) ==
  IF S = {} THEN EmptyBag
  ELSE LET x == CHOOSE y \in S : TRUE IN f[x] (+) SumBags(f, S \ {x})

\* values of the pushes that have returned, values the pops have returned
ts_Pushed == SumBags([t \in TsThreads |-> SeqToBag(ts_PushVals(ts_Returned(t)))], TsThreads)
ts_Popped == SumBags([t \in TsThreads |-> SeqToBag(ts_PopVals(ts_res[t]))], TsThreads)

\* thread t has run alone: k pushes followed by at most k+1 pops, all returned
ts_Solo(t, k) ==
  /\ \A u \in TsThreads \ {t} : ts_calls[u] = <<>>
  /\ ts_pc[t] = "idle"
  /\ k <= Len(ts_calls[t])
  /\ Len(ts_calls[t]) - k <= k + 1
  /\ \A i \in 1..Len(ts_calls[t]) : (ts_calls[t][i].op = "push") <=> (i <= k)

\* what k pushes followed by pops must return: the values in reverse, then empty
ts_SoloExpected(t, k) ==
  LET vs == Reverse(ts_PushVals(SubSeq(ts_calls[t], 1, k)))
  IN  [i \in 1..k |-> Ret(vs[i])] \o <<EmptyError>>

\* C1: the Treiber stack is linearizable as a LIFO stack.  The chain reachable
\* from top is the stack as linearized by the successful CAS steps; each
\* successful pop returned the value of the node on top at its CAS; the values
\* popped together with the values in the chain are the values pushed; a pop
\* that threw "empty" had loaded a null top; and a thread running alone that
\* pushes v1..vk and then pops gets vk..v1 and then the empty error.
TreiberLinearizable ==
  /\ ts_Chain(ts_top) = ts_abs
  /\ ts_ev.kind = "pop" =>
        /\ ts_ev.abs # <<>>
        /\ ts_ev.v = Head(ts_ev.abs)
        /\ ts_ev.v = ts_ev.topval
  /\ ts_Popped (+) SeqToBag(ts_Chain(ts_top)) = ts_Pushed
  /\ \A t \in TsThreads :
        (ts_pc[t] = "idle" /\ ts_res[t] # <<>> /\ ts_calls[t][Len(ts_calls[t])].op = "pop"
           /\ ts_res[t][Len(ts_res[t])].empty) => ts_sawnull[t]
  /\ \A t \in TsThreads : \A k \in 0..TsMaxOps :
        ts_Solo(t, k) => ts_res[t] = Prefix(ts_SoloExpected(t, k), Len(ts_calls[t]) - k)

\* both threads have completed operations, a pop took a value from under a
\* concurrent operation of the other thread, and a pop has thrown "empty"
TreiberLinearizableWitness ==
  /\ ts_ev.kind = "pop"
  /\ \E u \in TsThreads \ {ts_ev.t} : ts_pc[u] # "idle" /\ ts_Returned(u) # <<>>
  /\ \E t \in TsThreads : \E i \in 1..Len(ts_res[t]) : ts_res[t][i].empty
  /\ ts_top # NULL

(***************************************************************************)
(* msqueue: properties                                                     *)
(***************************************************************************)
\* the enqueues of thread t whose node has been linked into the chain
mq_Linked(t) ==
  IF mq_pc[t] \in {"enq_tail", "enq_next", "enq_check", "enq_link", "enq_help"}
    THEN SubSeq(mq_calls[t], 1, Len(mq_calls[t]) - 1)
    ELSE mq_calls[t]

mq_Enqueued == SumBags([t \in MqThreads |-> SeqToBag(ts_PushVals(mq_Linked(t)))], MqThreads)
mq_Dequeued == SumBags([t \in MqThreads |-> SeqToBag(ts_PopVals(mq_res[t]))], MqThreads)

\* the thread that enqueued value v (see mq_Arg)
mq_Producer(v) == (v - 1) \div MqMaxOps

mq_Enqueuers == {t \in MqThreads : \E i \in 1..Len(mq_calls[t]) : mq_calls[t][i].op = "push"}
mq_Dequeuers == {t \in MqThreads : \E i \in 1..Len(mq_calls[t]) : mq_calls[t][i].op = "pop"}

IsPrefix(s, r) == Len(s) <= Len(r) /\ s = SubSeq(r, 1, Len(s))

\* C2: the M&S queue is linearizable as a FIFO queue.  The chain after the
\* dummy node is the queue as linearized by the CAS steps; each successful
\* dequeue returned the front value at its CAS on head; the values dequeued
\* together with those in the chain are the values enqueued; the values of one
\* enqueuing thread are dequeued in the order it enqueued them, and with one
\* producer and one consumer the dequeued sequence is a prefix of the enqueued
\* one; a dequeue that threw "empty" read a null head->next while head == tail.
MsqueueLinearizable ==
  /\ mq_Chain(mq_next[mq_head]) = mq_abs
  /\ mq_ev.kind = "deq" =>
        /\ mq_ev.abs # <<>>
        /\ mq_ev.v = Head(mq_ev.abs)
  /\ mq_Dequeued (+) SeqToBag(mq_Chain(mq_next[mq_head])) = mq_Enqueued
  /\ \A i, j \in 1..Len(mq_deqlog) :
        (i < j /\ mq_Producer(mq_deqlog[i]) = mq_Producer(mq_deqlog[j]))
          => mq_deqlog[i] < mq_deqlog[j]
  /\ \A p, c \in MqThreads :
        (mq_Enqueuers = {p} /\ mq_Dequeuers = {c})
          => IsPrefix(ts_PopVals(mq_res[c]), ts_PushVals(mq_calls[p]))
  /\ \A t \in MqThreads :
        (mq_pc[t] = "idle" /\ mq_res[t] # <<>> /\ mq_calls[t][Len(mq_calls[t])].op = "pop"
           /\ mq_res[t][Len(mq_res[t])].empty) => mq_sawempty[t]

\* two values of one producer have been dequeued while the other thread was
\* inside an operation, and a dequeue has thrown "empty"
MsqueueLinearizableWitness ==
  /\ \E i, j \in 1..Len(mq_deqlog) :
        i < j /\ mq_Producer(mq_deqlog[i]) = mq_Producer(mq_deqlog[j])
  /\ \E t \in MqThreads : \E i \in 1..Len(mq_res[t]) : mq_res[t][i].empty

(***************************************************************************)
(* fc_stack / fc_queue: properties                                         *)
(***************************************************************************)
fc_AllIdle == \A t \in FcThreads : fc_pc[t] = "idle"

\* the values passed to push/enqueue, the values pop/dequeue returned
fc_Enqueued == SumBags([t \in FcThreads |-> SeqToBag(ts_PushVals(fc_calls[t]))], FcThreads)
fc_Dequeued == SumBags([t \in FcThreads |-> SeqToBag(ts_PopVals(fc_res[t]))], FcThreads)

\* C3: fc_queue preserves the multiset of values.  When every call has
\* returned, the values returned by dequeue together with the values still in
\* the underlying queue are the values passed to enqueue.  (Stated for the
\* runs in which no enqueued value is -1 and no dequeue was served on an empty
\* queue, so that duplicates and losses are those of the combining itself.)
FcQueuePreservesMultiset ==
  (/\ fc_kind = "queue"
   /\ fc_AllIdle
   /\ ~fc_servedEmpty
   /\ ~BagIn(FcSentinel, fc_Enqueued))
    => fc_Dequeued (+) SeqToBag(fc_data) = fc_Enqueued

\* C4: every flat-combining operation returns.  A caller that failed try_lock
\* and spins on its slot's done flag is eventually released.
FcSpinnerIsReleased ==
  \A t \in FcThreads : (fc_pc[t] = "spin") ~> (fc_pc[t] = "reset")

\* thread t has just returned from a pop()/dequeue()
fc_PopReturned(t) ==
  fc_pc[t] = "idle" /\ fc_calls[t] # <<>> /\ ~fc_IsPush(t)

\* C5: pop()/dequeue() reports the empty error whenever the underlying
\* container held no element when the request was combined.
FcEmptyIsReported ==
  \A t \in FcThreads :
    (fc_PopReturned(t) /\ fc_popEmpty[fc_s[t]]) => fc_res[t][Len(fc_res[t])] = EmptyError

\* C6: a caller can tell empty from a value.  A thread running alone that
\* calls push(v) and then pop() gets v, for every v, -1 included.
FcPushPopReturnsValue ==
  \A t \in FcThreads : \A v \in fc_Args(t) \cup {1, FcSentinel} :
    (/\ \A u \in FcThreads \ {t} : fc_calls[u] = <<>>
     /\ fc_pc[t] = "idle"
     /\ fc_calls[t] = <<PushCall(v), PopCall>>)
      => fc_res[t] = <<Ret(v)>>

(***************************************************************************)
(* bounded_queue / condvar_no_spurious: properties                         *)
(***************************************************************************)
bq_InWait(t) == bq_pc[t] \in {"blocked", "woken"}
bq_ActiveProducers == bq_active \cap BqProducers
bq_ActiveConsumers == bq_active \cap BqConsumers

\* C7: with one producer enqueuing 0..N-1 and one consumer, the i-th dequeue
\* returns i-1, and the consumer that has finished has received all N values.
BqFifoOneProducerOneConsumer ==
  \A p \in BqProducers, c \in BqConsumers :
    bq_active = {p, c} =>
      /\ \A i \in 1..Len(bq_got[c]) : bq_got[c][i] = p * BqN + (i - 1)
      /\ Len(bq_got[c]) = bq_k[c]

\* the consumer has received all N > SIZE values, having slept on not_empty
\* after the producer had already signalled once
BqFifoOneProducerOneConsumerWitness ==
  /\ bq_active = {0, 2}
  /\ Len(bq_got[2]) = BqN
  /\ BqN > SIZE
  /\ bq_my_epoch[2] > 0

\* C8: enqueue blocks exactly when the buffer is full (one producer).  An
\* enqueue past its loop has found count < SIZE; one asleep on not_full with no
\* dequeue since it fell asleep sees count = SIZE; and once a dequeue has made
\* room, the enqueue waiting on not_full stores its value and returns.
BqEnqueueBlocksWhenFull ==
  /\ [](\A p \in BqProducers : bq_pc[p] = "body" => bq_count < SIZE)
  /\ [](\A p \in BqProducers :
          (/\ bq_InWait(p)
           /\ bq_epoch["not_full"] = bq_my_epoch[p]
           /\ \A c \in BqConsumers : bq_pc[c] # "signal") => bq_count = SIZE)
  /\ \A p \in BqProducers :
       (bq_InWait(p) /\ bq_count < SIZE) ~> (bq_pc[p] = "return")

\* after SIZE enqueues and no dequeue, the producer is asleep in a further enqueue
BqEnqueueBlocksWhenFullWitness ==
  /\ bq_ActiveProducers = {0}
  /\ bq_pc[0] = "blocked"
  /\ bq_k[0] = SIZE
  /\ bq_count = SIZE
  /\ bq_epoch["not_full"] = 0

bq_AllDone == \A t \in bq_active : bq_k[t] = BqN

\* C9: no lost wake-up, no deadlock.  When the producers enqueue in total as
\* many items as the consumers dequeue, every call eventually returns.
BqEveryCallReturns ==
  (Cardinality(bq_ActiveProducers) = Cardinality(bq_ActiveConsumers)) => <>bq_AllDone

\* two producers and two consumers have all finished, and each of them has
\* slept at least once after a signal on its condition variable
BqEveryCallReturnsWitness ==
  /\ bq_active = BqThreads
  /\ bq_AllDone
  /\ \E p \in BqProducers : bq_my_epoch[p] > 0
  /\ \E c \in BqConsumers : bq_my_epoch[c] > 0

\* C10: wait() filters spurious wake-ups.  A thread that has just returned
\* from wait() sees an epoch different from the one it captured.
CvWaitReturnsOnlyOnNewEpoch ==
  \A t \in BqThreads : bq_pc[t] = "wait_ret" => bq_epoch[bq_WaitsOn(t)] # bq_my_epoch[t]

\* one thread has returned from wait() while another, woken spuriously, is
\* about to test the predicate with the epoch it captured unchanged
CvWaitReturnsOnlyOnNewEpochWitness ==
  /\ \E t \in BqThreads : bq_pc[t] = "wait_ret"
  /\ \E u \in BqThreads : bq_pc[u] = "woken" /\ bq_epoch[bq_WaitsOn(u)] = bq_my_epoch[u]

(***************************************************************************)
(* condvar_no_spurious: properties                                         *)
(***************************************************************************)
\* C11: one signal returns at most one waiter.  Of the threads that captured
\* the same epoch e, no more return from wait() than signal() was called
\* since, as long as there was no broadcast(): with one signal after e, at
\* most one.
CvSignalReturnsAtMostOne ==
  cv_nbroadcast = 0 =>
    \A e \in DOMAIN cv_returned :
      (e <= cv_epoch) => Cardinality(cv_returned[e]) <= cv_epoch - e


\* C12: broadcast returns all current waiters.  A thread that was inside
\* wait() when broadcast() was called returns from that wait(), with no
\* further signal needed.
CvBroadcastReturnsAll ==
  \A t \in CvWaiters : (t \in cv_pending) ~> (t \notin cv_pending)

\* both waiters captured epoch 0, one broadcast and no signal were issued, and
\* both have returned
CvBroadcastReturnsAllWitness ==
  /\ cv_nbroadcast = 1
  /\ cv_nsignal = 0
  /\ cv_returned[0] = CvWaiters
  /\ cv_pending = {}

(***************************************************************************)
(* elimination_stack: properties                                           *)
(***************************************************************************)
\* the values pushed so far (the push has returned), the values pops returned
es_Pushed ==
  UNION {{es_calls[t][i].v : i \in {j \in 1..Len(es_calls[t]) :
            /\ es_calls[t][j].op = "push"
            /\ (j < Len(es_calls[t]) \/ es_pc[t] = "idle")}} : t \in EsThreads}
es_Popped ==
  UNION {{es_res[t][i].v : i \in {j \in 1..Len(es_res[t]) : ~es_res[t][j].empty}} :
           t \in EsThreads}
es_AllDone ==
  \A t \in EsThreads : es_pc[t] = "idle" /\ Len(es_calls[t]) = 2 * EsMaxPairs

\* C13: when every thread alternates push(v) and pop(), no pop reports the
\* empty error, every popped value was pushed, and once all threads have
\* finished the set of popped values is the set of pushed values.
ElimPairedPopsNeverEmpty ==
  /\ \A t \in EsThreads : \A i \in 1..Len(es_res[t]) : ~es_res[t][i].empty
  /\ es_Popped \subseteq es_Pushed
  /\ es_AllDone => es_Popped = es_Pushed

\* all threads have finished, and one of them popped a value pushed by another
ElimPairedPopsNeverEmptyWitness ==
  /\ es_AllDone
  /\ \E t \in EsThreads : \E i \in 1..Len(es_res[t]) :
       \A j \in 1..Len(es_calls[t]) : es_calls[t][j].v # es_res[t][i].v

(***************************************************************************)
(* sgl_stack / sgl_queue: properties                                       *)
(***************************************************************************)
\* the threads inside a critical section
sg_Inside == {t \in SgThreads : sg_pc[t] # "idle"}
sg_AllDone == \A t \in SgThreads : sg_pc[t] = "idle" /\ Len(sg_calls[t]) = SgMaxOps

\* C14: pop()/dequeue() on an empty container fails with the empty error,
\* leaves the contents as they were and releases the mutex, so that every
\* later operation gets the lock and completes; every operation runs alone
\* inside the critical section.
SglEmptyPopReleasesLock ==
  /\ [](sg_Inside \subseteq {sg_lock} /\ (sg_Inside = {} => sg_lock = NoThread))
  /\ [][\A t \in SgThreads :
          /\ (sg_pc[t] = "pop_check" /\ sg_data = <<>>) =>
                (sg_pc'[t] = "pop_throw" /\ sg_data' = sg_data)
          /\ (sg_pc[t] = "pop_throw" /\ sg_pc'[t] = "idle") =>
                /\ sg_data' = sg_data
                /\ sg_lock' = NoThread
                /\ sg_res'[t] = Append(sg_res[t], EmptyError)
          /\ (sg_pc[t] = "pop_check" /\ sg_data # <<>>) => sg_pc'[t] # "pop_throw"]_vars
  /\ [][sg_data' # sg_data => (sg_lock # NoThread /\ sg_lock' = sg_lock)]_vars
  /\ <>sg_AllDone

\* a thread's first pop failed on the empty container and its next pop returned
\* a value another thread pushed afterwards
SglEmptyPopReleasesLockWitness ==
  \E t \in SgThreads :
    /\ Len(sg_res[t]) >= 2
    /\ sg_res[t][1].empty
    /\ ~sg_res[t][2].empty
    /\ \A j \in 1..Len(sg_calls[t]) : sg_calls[t][j].op = "pop"

\* the threads between a successful lock.try_lock() and the matching lock.unlock()
fc_Combiners ==
  {t \in FcThreads :
     fc_pc[t] \in {"combine", "combine_push", "combine_pop", "combine_done", "unlock"}}

\* C15: at most one thread at a time executes combine(), and it is the one
\* that holds the lock.
FcOneCombiner ==
  /\ Cardinality(fc_Combiners) <= 1
  /\ \A t \in fc_Combiners : fc_lock = t

\* one thread is about to push a request inside combine() while the other,
\* whose try_lock failed, spins
FcOneCombinerWitness ==
  \E t, u \in FcThreads : fc_pc[t] = "combine_push" /\ fc_pc[u] = "spin"

\* the thread whose call is posted in slot i
fc_Poster(i) ==
  {u \in FcThreads :
     /\ fc_s[u] = i
     /\ fc_pc[u] \in {"post_val", "post_done", "try_lock", "combine", "combine_push",
                      "combine_pop", "combine_done", "unlock", "spin", "reset"}}

\* C16: a push/enqueue is published so that the combiner reads the caller's
\* value.  The value a combiner pushes for slot i is the argument of the push
\* posted in slot i, and the caller's done = false is never written after a
\* combiner has executed the request.
FcCombinerReadsPostedValue ==
  /\ [][\A t \in FcThreads :
          (fc_pc[t] = "combine_push" /\ fc_pc'[t] = "combine_done") =>
             \E u \in fc_Poster(fc_i[t]) :
               fc_IsPush(u) /\ fc_data'[Len(fc_data')] = fc_arg[u]]_vars
  /\ [][\A t \in FcThreads :
          (fc_pc[t] = "post_done" /\ fc_pc'[t] = "try_lock") =>
             fc_applied[fc_s[t]] = 0]_vars

\* C17: each invocation is applied to the underlying container exactly once.
\* When the caller has reset op to 0, combiners have executed the request it
\* posted one time.
FcAppliedExactlyOnce ==
  \A t \in FcThreads :
    (fc_calls[t] # <<>> /\ fc_pc[t] \in {"idle", "check_result", "return_result"})
      => fc_applied[fc_s[t]] = 1

(***************************************************************************)
(* get_slot: properties                                                    *)
(***************************************************************************)
\* C18: every thread that operates on an fc_stack gets a slot index in
\* [0, MAX_THREADS) that is the same in all its calls, however many threads
\* have called get_slot.
FcStackSlotInRange ==
  gs_kind = "stack" =>
    \A t \in GsThreads : \A i \in 1..Len(gs_rets[t]) :
      /\ gs_rets[t][i] \in 0..(MAX_THREADS - 1)
      /\ gs_rets[t][i] = gs_rets[t][1]

(***************************************************************************)
(* msqueue: structure                                                      *)
(***************************************************************************)
\* the nodes met from node p along next, at most k of them
RECURSIVE mq_Path(_, _)
mq_Path(p, k) ==
  IF p = NULL \/ k = 0 THEN <<>> ELSE <<p>> \o mq_Path(mq_next[p], k - 1)

\* the nodes from head on; one more than the nodes allocated if there is a cycle
mq_FromHead == mq_Path(mq_head, Len(mq_value) + 1)

\* C19: head is never null; the chain from head is acyclic; tail is on the
\* chain from head (head has not moved past it); and tail is the last node or
\* the node before the last.
MsqueueStructure ==
  /\ mq_head # NULL
  /\ Len(mq_FromHead) <= Len(mq_value)
  /\ \E i \in 1..Len(mq_FromHead) : mq_FromHead[i] = mq_tail
  /\ mq_tail # NULL
  /\ (mq_next[mq_tail] = NULL \/ mq_next[mq_next[mq_tail]] = NULL)

\* after a dequeue has moved head off the first dummy, head and tail are the
\* same node and a new node is linked behind it: tail lags by one link
MsqueueStructureWitness ==
  /\ mq_head # 1
  /\ mq_head = mq_tail
  /\ mq_next[mq_tail] # NULL

\* C20: a failed tail-swing CAS is benign.  The enqueue that linked its node
\* returns whether or not its CAS on tail succeeds; the chain behind the dummy
\* is the queue in FIFO order wherever tail is; and an enqueue or dequeue that
\* has seen the lagging tail moves tail by one link when its CAS wins, and completes.
MsqueueLaggingTailBenign ==
  /\ [][\A t \in MqThreads :
          (mq_pc[t] = "enq_swing" /\ mq_pc'[t] # "enq_swing") => mq_pc'[t] = "idle"]_vars
  /\ [](mq_Chain(mq_next[mq_head]) = mq_abs)
  /\ [][\A t \in MqThreads :
          (mq_pc[t] \in {"enq_help", "deq_help"} /\ mq_pc'[t] # mq_pc[t] /\ mq_tail' # mq_tail)
            => (mq_tail' = mq_next[mq_tail] /\ mq_tail' # NULL)]_vars
  /\ \A t \in MqThreads :
       (mq_pc[t] \in {"enq_help", "deq_help"}) ~> (mq_pc[t] = "idle")

\* a thread is about to help a lagging tail that a returned enqueue left
\* behind: no other thread is inside a call
MsqueueLaggingTailBenignWitness ==
  \E t \in MqThreads :
    /\ mq_pc[t] \in {"enq_help", "deq_help"}
    /\ mq_next[mq_tail] # NULL
    /\ mq_last[t] = mq_tail
    /\ \A u \in MqThreads \ {t} : mq_pc[u] = "idle"

\* C21: treiber_stack operations terminate under fairness.  With finitely many
\* calls and fair scheduling every push and every pop that has started returns:
\* a push by its CAS on top, a pop by its CAS on top or by the empty error; a
\* thread leaves a CAS only to return or to load top again.
TreiberTerminates ==
  /\ \A t \in TsThreads : (ts_pc[t] # "idle") ~> (ts_pc[t] = "idle")
  /\ [][\A t \in TsThreads :
          (ts_pc[t] = "pop_check" /\ ts_pc'[t] = "idle")
            => (ts_old_top[t] = NULL /\ ts_res'[t] = Append(ts_res[t], EmptyError))]_vars
  /\ [][\A t \in TsThreads :
          (ts_pc[t] = "pop_cas" /\ ts_pc'[t] = "idle")
            => (ts_top = ts_old_top[t] /\ ts_top' = ts_nxt[t])]_vars

\* a thread stands at a CAS that is bound to fail, top having moved since the
\* thread loaded it: the thread has to go around its loop again
TreiberTerminatesWitness ==
  \E t \in TsThreads :
    /\ ts_pc[t] \in {"push_cas", "pop_cas"}
    /\ ts_top # ts_old_top[t]


\* the puts producer p has made: its returned calls and the one past line 55
bq_Puts(p) == bq_k[p] + (IF bq_pc[p] \in {"signal", "return"} THEN 1 ELSE 0)
\* the values stored by enqueue so far
bq_Enqueued == UNION {{p * BqN + j : j \in 0..(bq_Puts(p) - 1)} : p \in BqProducers}
\* the values read by dequeue so far
bq_Taken ==
  UNION {{bq_got[c][i] : i \in 1..Len(bq_got[c])}
           \cup (IF bq_pc[c] \in {"signal", "return"} THEN {bq_v[c]} ELSE {}) :
         c \in BqConsumers}
\* how many values dequeue has read so far
RECURSIVE bq_TakenCount(_)
bq_TakenCount(S) ==
  IF S = {} THEN 0
  ELSE LET c == CHOOSE x \in S : TRUE
       IN Len(bq_got[c]) + (IF bq_pc[c] \in {"signal", "return"} THEN 1 ELSE 0)
            + bq_TakenCount(S \ {c})
\* the slots between head and tail, and what they hold
bq_LiveSlots == {(bq_head + i) % SIZE : i \in 0..(bq_count - 1)}
bq_Live == {bq_buffer[i] : i \in bq_LiveSlots \cap DOMAIN bq_buffer}

\* C22: whenever the mutex is free, 0 <= count <= SIZE, head and tail are in
\* 0..SIZE-1 and tail = (head + count) mod SIZE; the count slots from head hold
\* exactly the values enqueued and not yet dequeued (no enqueue has overwritten
\* one of them), and every dequeue has read a value that an enqueue stored and
\* that no other dequeue has read (never a slot that holds no element).
BqBufferInvariant ==
  bq_lock = NoThread =>
    /\ bq_count \in 0..SIZE
    /\ bq_head \in 0..(SIZE - 1)
    /\ bq_tail \in 0..(SIZE - 1)
    /\ bq_tail = (bq_head + bq_count) % SIZE
    /\ Cardinality(bq_Live) = bq_count
    /\ bq_Live \cap bq_Taken = {}
    /\ bq_Live \cup bq_Taken = bq_Enqueued
    /\ Cardinality(bq_Taken) = bq_TakenCount(BqConsumers)

\* the mutex is free, the buffer is full and has wrapped around (head is not
\* slot 0), a producer sleeps on not_full and a consumer has received values
BqBufferInvariantWitness ==
  /\ bq_lock = NoThread
  /\ bq_count = SIZE
  /\ bq_head # 0
  /\ \E pr \in BqProducers : bq_pc[pr] = "blocked"
  /\ \E c \in BqConsumers : Len(bq_got[c]) > 0


\* C23: every elim_ops[i] is 0 in every reachable state; no push and no pop
\* returns through the elimination array (a call that starts always goes on to
\* load top, and elim_vals is never written); and the calls behave as
\* treiber_stack's: a push returns by the CAS that puts its value on the chain
\* from top, a pop returns the value at the head of that chain by the CAS that
\* removes it, or the empty error after loading a null top.
ElimNeverEliminates ==
  /\ [](\A i \in DOMAIN es_ops : es_ops[i] = 0)
  /\ [](\A i \in DOMAIN es_vals : es_vals[i] = 0)
  /\ [][\A t \in EsThreads :
          (es_pc[t] = "idle" /\ es_calls'[t] # es_calls[t])
            => (/\ es_pc'[t] = IF es_calls'[t][Len(es_calls'[t])].op = "push"
                                 THEN "push_load" ELSE "pop_load"
                /\ es_res' = es_res /\ es_top' = es_top)]_vars
  /\ [][\A t \in EsThreads :
          (es_pc[t] = "push_cas" /\ es_pc'[t] = "idle")
            => es_Chain(es_top') = <<es_calls[t][Len(es_calls[t])].v>> \o es_Chain(es_top)]_vars
  /\ [][\A t \in EsThreads :
          (es_pc[t] = "pop_cas" /\ es_pc'[t] = "idle")
            => (/\ es_Chain(es_top) # <<>>
                /\ es_res'[t] = Append(es_res[t], Ret(Head(es_Chain(es_top))))
                /\ es_Chain(es_top') = Tail(es_Chain(es_top)))]_vars
  /\ [][\A t \in EsThreads :
          (es_pc[t] = "pop_check" /\ es_pc'[t] = "idle")
            => (es_old_top[t] = NULL /\ es_res'[t] = Append(es_res[t], EmptyError))]_vars
  /\ [][es_top' # es_top =>
          \E t \in EsThreads : es_pc[t] \in {"push_cas", "pop_cas"} /\ es_pc'[t] = "idle"]_vars

\* both threads have made all their calls, a pop found the stack empty and
\* another returned a value pushed by the other thread
ElimNeverEliminatesWitness ==
  /\ ~es_paired
  /\ \A t \in EsThreads : es_pc[t] = "idle" /\ Len(es_calls[t]) = 2 * EsMaxPairs
  /\ \E t \in EsThreads : \E i \in 1..Len(es_res[t]) : es_res[t][i].empty
  /\ \E t \in EsThreads : \E i \in 1..Len(es_res[t]) :
       /\ ~es_res[t][i].empty
       /\ \A j \in 1..Len(es_calls[t]) : es_calls[t][j].v # es_res[t][i].v

=============================================================================
